---- MODULE Spec2Model ----
(***************************************************************************)
(* Market-data pipeline of cex-price-x402: the observation cache           *)
(* (MemoryCache), the quote compositor (Compositor) and the Binance venue  *)
(* feed (BinanceAdapter).                                                  *)
(*                                                                         *)
(* Numbers: prices are decimal strings in the source and are carried here  *)
(* as exact rationals <<n, d>>; JavaScript numbers (spread_bps, weights)   *)
(* are carried as exact rationals extended with +Infinity, -Infinity and   *)
(* NaN (<<1,0>>, <<-1,0>>, <<0,0>>), so a division by zero yields what     *)
(* IEEE-754 yields.  Rounding of binary floating point is not modelled.    *)
(***************************************************************************)
EXTENDS Integers, Sequences, FiniteSets, TLC

VARIABLES
    now,              \* Date.now(), in ms
    cache,            \* MemoryCache.cache: the Map's entries in insertion order
    lastSet,          \* history: per key, the observation and time of the latest set()
    lastCall,         \* history: the cache operation just called and what it returned
    pairs,            \* BinanceAdapter.pairs: the configured pairs
    socks,            \* the WebSocket objects the adapter created, oldest first; the one
                      \* with cur = TRUE is this.ws (none: this.ws is null)
    reconnectAttempts,
    reconnectTimeout, \* null, or the pending reconnect timer <<delay>>
    shouldReconnect,
    currentUrlIndex,
    stats,            \* BinanceAdapter.stats
    hist,             \* history of the feed (what happened, for stating properties)
    received,         \* history: the frames handed to handleMessage, in receipt order
    delivered,        \* history: the observations passed to the tick callback, in order
    conn              \* history: who called the connect() each socket belongs to, and how
                      \* the connect() call handled in this step ended

cacheVars == <<now, cache, lastSet, lastCall>>
msgVars == <<received, delivered>>
feedVars == <<pairs, socks, reconnectAttempts, reconnectTimeout, shouldReconnect,
              currentUrlIndex, stats, hist, received, delivered, conn>>
vars == <<now, cache, lastSet, lastCall, pairs, socks, reconnectAttempts, reconnectTimeout,
          shouldReconnect, currentUrlIndex, stats, hist, received, delivered, conn>>

\* JavaScript null / undefined: a value that differs from every record, rational and string
null == <<>>

(***************************************************************************)
(* Bounds of the model                                                     *)
(***************************************************************************)
\* the clock is observed at the instants p * 2000 + o, p \in 0..MaxPeriods, o \in {0, 1}
MaxPeriods == 1
\* the clock may advance by up to MaxDrift ms between two reads inside one getQuote
MaxDrift == 1
\* sockets of one adapter that are not closed at the same time
MaxLive == 2
\* caps of the adapter's counters reconnectAttempts and stats.errors
MaxAttempts == 6
MaxErrors == 6
\* connect() calls made by the adapter's user
MaxCalls == 1
\* frames a socket hands to the adapter
MaxFrames == 3

(***************************************************************************)
(* Program constants                                                       *)
(***************************************************************************)
STALENESS_THRESHOLD_MS == 2000
MAX_STALENESS_MS == 2000
MAX_RECONNECT_DELAY == 30000
INITIAL_RECONNECT_DELAY == 1000

(***************************************************************************)
(* Extended rational arithmetic                                            *)
(***************************************************************************)
RECURSIVE Gcd(_, _)
Gcd(a, b) == IF b = 0 THEN a ELSE Gcd(b, a % b)

Abs(x) == IF x < 0 THEN -x ELSE x
Sgn(x) == IF x < 0 THEN -1 ELSE IF x > 0 THEN 1 ELSE 0

NaN == <<0, 0>>
PosInf == <<1, 0>>
NegInf == <<-1, 0>>
IsFinite(a) == a[2] # 0
IsNaN(a) == a = NaN

\* the rational n/d in lowest terms with a positive denominator (d # 0)
Rat(n, d) ==
    LET g == Gcd(Abs(n), Abs(d))
        s == IF d < 0 THEN -1 ELSE 1
    IN  <<s * (n \div g), s * (d \div g)>>

Int2Rat(i) == <<i, 1>>

RatAdd(a, b) ==
    IF IsNaN(a) \/ IsNaN(b) THEN NaN
    ELSE IF ~IsFinite(a) /\ ~IsFinite(b) THEN (IF a = b THEN a ELSE NaN)
    ELSE IF ~IsFinite(a) THEN a
    ELSE IF ~IsFinite(b) THEN b
    ELSE LET g == Gcd(a[2], b[2])
         IN  Rat(a[1] * (b[2] \div g) + b[1] * (a[2] \div g), (a[2] \div g) * b[2])

RatNeg(a) == <<-a[1], a[2]>>
RatSub(a, b) == RatAdd(a, RatNeg(b))

RatMul(a, b) ==
    IF IsNaN(a) \/ IsNaN(b) THEN NaN
    ELSE IF ~IsFinite(a) \/ ~IsFinite(b)
         THEN (IF a[1] = 0 \/ b[1] = 0 THEN NaN ELSE <<Sgn(a[1]) * Sgn(b[1]), 0>>)
    ELSE LET g1 == Gcd(Abs(a[1]), b[2])
             g2 == Gcd(Abs(b[1]), a[2])
         IN  Rat((a[1] \div g1) * (b[1] \div g2), (a[2] \div g2) * (b[2] \div g1))

\* 1/a; 1/0 is +Infinity (the zero of a sum x + 1 is +0)
RatInv(a) ==
    IF IsNaN(a) THEN NaN
    ELSE IF ~IsFinite(a) THEN <<0, 1>>
    ELSE IF a[1] = 0 THEN PosInf
    ELSE Rat(a[2], a[1])

RatDiv(a, b) == RatMul(a, RatInv(b))

\* a > b as JavaScript compares numbers: false when either is NaN
RatGt(a, b) ==
    IF IsNaN(a) \/ IsNaN(b) THEN FALSE
    ELSE IF ~IsFinite(a) THEN a = PosInf /\ b # PosInf
    ELSE IF ~IsFinite(b) THEN b = NegInf
    ELSE a[1] * b[2] > b[1] * a[2]

(***************************************************************************)
(* Observations (NormalizedTick) and the inputs of the model               *)
(***************************************************************************)
Tick(venue, pair, ts, bid, ask, type) ==
    [venue |-> venue, pair |-> pair, ts |-> ts, bid |-> bid, ask |-> ask, type |-> type]

\* The observations set() is called with.  ts is the receipt time the producer
\* stamped; a later call may carry an earlier ts.  A trade print carries no
\* bid/ask; one book observation is crossed (bid above ask).
SampleTicks ==
    { Tick("binance",  "BTC-USD", 7, Int2Rat(19998), Int2Rat(20002), "book"),
      Tick("binance",  "BTC-USD", 5, null, null, "trade"),
      Tick("binance",  "BTC-USD", 5, Int2Rat(20003), Int2Rat(19997), "book"),
      Tick("coinbase", "BTC-USD", 7, Int2Rat(10000), Int2Rat(10000), "book"),
      Tick("binance",  "ETH-USD", 5, Int2Rat(3000), null, "book") }

Venues == {t.venue : t \in SampleTicks}
Pairs == {t.pair : t \in SampleTicks}

\* the instants at which the clock is observed
Instants == {p * STALENESS_THRESHOLD_MS + o : p \in 0..MaxPeriods, o \in {0, 1}}

\* CompositorOptions after the constructor's defaults
OptionSets == [minVenues : {1, 2}, maxStaleness : {1000, MAX_STALENESS_MS, 3000}]
DefaultOptions == [minVenues |-> 1, maxStaleness |-> MAX_STALENESS_MS]

(***************************************************************************)
(* JavaScript Map, as the sequence of its entries in insertion order       *)
(***************************************************************************)
MapHas(m, key) == \E i \in 1..Len(m) : m[i].key = key
MapIndex(m, key) == CHOOSE i \in 1..Len(m) : m[i].key = key
MapGet(m, key) == IF MapHas(m, key) THEN m[MapIndex(m, key)].value ELSE null
\* an existing key keeps its place and gets the new value; a new key goes last
MapSet(m, key, value) ==
    IF MapHas(m, key)
    THEN [m EXCEPT ![MapIndex(m, key)] = [key |-> key, value |-> value]]
    ELSE Append(m, [key |-> key, value |-> value])

(***************************************************************************)
(* MemoryCache                                                             *)
(***************************************************************************)
createKey(venue, pair) == venue \o ":" \o pair

endsWith(str, suffix) ==
    /\ Len(str) >= Len(suffix)
    /\ SubSeq(str, Len(str) - Len(suffix) + 1, Len(str)) = suffix
startsWith(str, prefix) ==
    /\ Len(str) >= Len(prefix)
    /\ SubSeq(str, 1, Len(prefix)) = prefix

AllKeys == {createKey(t.venue, t.pair) : t \in SampleTicks}

\* the mutant of cacheSetEntries used to test C2: an observation with an earlier ts
\* does not replace the stored one
cacheSetEntries_newestTs(tick) ==
    LET key == createKey(tick.venue, tick.pair)
    IN  IF MapHas(cache, key) /\ MapGet(cache, key).tick.ts > tick.ts
        THEN cache
        ELSE MapSet(cache, key, [tick |-> tick, insertedAt |-> now])

\* a set that stamps the entry with the observation's own timestamp
cacheSetEntries_stampsTs(tick) ==
    MapSet(cache, createKey(tick.venue, tick.pair), [tick |-> tick, insertedAt |-> tick.ts])

\* a set that also evicts the entries that have become stale
cacheSetEntries_dropsStale(tick) ==
    LET Fresh(e) == now - e.value.insertedAt <= STALENESS_THRESHOLD_MS
    IN  MapSet(SelectSeq(cache, Fresh), createKey(tick.venue, tick.pair),
               [tick |-> tick, insertedAt |-> now])

\* the entries after this.cache.set(key, {tick, insertedAt: Date.now()})
cacheSetEntries(tick) ==
    MapSet(cache, createKey(tick.venue, tick.pair), [tick |-> tick, insertedAt |-> now])

\* lastSet records, for the key, the observation, the time of the call and whether the
\* call replaced an entry whose observation carried a later ts
set(tick) ==
    /\ cache' = cacheSetEntries(tick)
    /\ lastSet' = [lastSet EXCEPT ![createKey(tick.venue, tick.pair)] =
          [tick |-> tick, at |-> now,
           outOfOrder |-> \E i \in 1..Len(cache) :
                             /\ cache[i].key = createKey(tick.venue, tick.pair)
                             /\ cache[i].value.tick.ts > tick.ts]]
    /\ UNCHANGED now

\* the mutant of get used to test C1: no staleness check
get_noStaleness(venue, pair) ==
    LET entry == MapGet(cache, createKey(venue, pair))
    IN  IF entry = null THEN null ELSE entry.tick

get(venue, pair) ==
    LET entry == MapGet(cache, createKey(venue, pair))
    IN  IF entry = null THEN null
        ELSE IF now - entry.insertedAt > STALENESS_THRESHOLD_MS THEN null
        ELSE entry.tick

\* the observations of a sequence of entries
entryTicks(entries) == [i \in 1..Len(entries) |-> entries[i].value.tick]

\* a getByPair that does not look at the age of an entry
getByPair_anyAge(pair, t) ==
    LET OfPair(e) == endsWith(e.key, ":" \o pair)
    IN  entryTicks(SelectSeq(cache, OfPair))

\* t is the value Date.now() returns in the call
getByPair(pair, t) ==
    LET Fresh(e) == /\ endsWith(e.key, ":" \o pair)
                    /\ t - e.value.insertedAt <= STALENESS_THRESHOLD_MS
    IN  entryTicks(SelectSeq(cache, Fresh))

\* a getByVenue that does not look at the age of an entry
getByVenue_anyAge(venue, t) ==
    LET OfVenue(e) == startsWith(e.key, venue \o ":")
    IN  entryTicks(SelectSeq(cache, OfVenue))

getByVenue(venue, t) ==
    LET Fresh(e) == /\ startsWith(e.key, venue \o ":")
                    /\ t - e.value.insertedAt <= STALENESS_THRESHOLD_MS
    IN  entryTicks(SelectSeq(cache, Fresh))

getStaleness(venue, pair, t) ==
    LET entry == MapGet(cache, createKey(venue, pair))
    IN  IF entry = null THEN null ELSE t - entry.insertedAt

has(venue, pair) == get(venue, pair) # null

\* a cleanup that also removes the entries exactly as old as the threshold
cleanupKeeps_younger(e) == now - e.value.insertedAt < STALENESS_THRESHOLD_MS

cleanupKeeps(e) == ~(now - e.value.insertedAt > STALENESS_THRESHOLD_MS)
cleanupRemoved == Len(cache) - Len(SelectSeq(cache, cleanupKeeps))
cleanup ==
    /\ cache' = SelectSeq(cache, cleanupKeeps)
    /\ UNCHANGED <<now, lastSet>>

clear ==
    /\ cache' = <<>>
    /\ UNCHANGED <<now, lastSet>>

\* a getStats that counts an entry exactly as old as the threshold as stale
getStats_younger ==
    LET Fresh(e) == now - e.value.insertedAt < STALENESS_THRESHOLD_MS
        Stale(e) == ~Fresh(e)
    IN  [totalEntries |-> Len(cache),
         freshEntries |-> Len(SelectSeq(cache, Fresh)),
         staleEntries |-> Len(SelectSeq(cache, Stale))]

getStats ==
    LET Fresh(e) == now - e.value.insertedAt <= STALENESS_THRESHOLD_MS
        Stale(e) == ~Fresh(e)
    IN  [totalEntries |-> Len(cache),
         freshEntries |-> Len(SelectSeq(cache, Fresh)),
         staleEntries |-> Len(SelectSeq(cache, Stale))]

\* the passing of time: Date.now() never goes back
Advance ==
    /\ \E t \in Instants : t > now /\ now' = t
    /\ UNCHANGED <<cache, lastSet>>

(***************************************************************************)
(* utils/decimal                                                           *)
(***************************************************************************)
calculateMid(bid, ask) == RatDiv(RatAdd(bid, ask), Int2Rat(2))

calculateSpreadBps(bid, ask) ==
    LET mid == RatDiv(RatAdd(bid, ask), Int2Rat(2))
    IN  IF mid[1] = 0 THEN Int2Rat(0)
        ELSE RatMul(RatDiv(RatSub(ask, bid), mid), Int2Rat(10000))

RECURSIVE RatSum(_)
RatSum(s) == IF s = <<>> THEN Int2Rat(0) ELSE RatAdd(RatSum(SubSeq(s, 1, Len(s) - 1)), s[Len(s)])

\* a thrown Error, as a result
threw(message) == [threw |-> message]
IsThrow(r) == r # null /\ "threw" \in DOMAIN r

\* values: decimal strings; weights: numbers.  The result is [value |-> the decimal
\* string returned] or a throw.
calculateWeightedAverage(values, weights) ==
    IF Len(values) # Len(weights) THEN threw("Values and weights arrays must have same length")
    ELSE IF Len(values) = 0 THEN threw("Cannot calculate weighted average of empty array")
    ELSE LET sum == RatSum([i \in 1..Len(values) |-> RatMul(values[i], weights[i])])
             weightSum == RatSum(weights)
         IN  IF weightSum = Int2Rat(0) THEN threw("Sum of weights cannot be zero")
             ELSE [value |-> RatDiv(sum, weightSum)]

(***************************************************************************)
(* Compositor                                                              *)
(***************************************************************************)
calculateWeights(venueMids) ==
    LET inverseSpreads == [i \in 1..Len(venueMids) |->
                              RatDiv(Int2Rat(1), RatAdd(venueMids[i].spread_bps, Int2Rat(1)))]
        totalWeight == RatSum(inverseSpreads)
    IN  [i \in 1..Len(venueMids) |-> RatDiv(inverseSpreads[i], totalWeight)]

\* the last element in place of the largest
MaxOf_last(s) == s[Len(s)]

\* Math.max of a non-empty list of integers
RECURSIVE MaxOf(_)
MaxOf(s) == IF Len(s) = 1 THEN s[1]
            ELSE LET m == MaxOf(SubSeq(s, 1, Len(s) - 1))
                 IN  IF s[Len(s)] > m THEN s[Len(s)] ELSE m

\* The clock offsets of the successive getStaleness calls of one getQuote,
\* relative to the clock value getByPair read: the clock does not go back.
DriftSeqs ==
    {d \in [1..Cardinality(Venues) -> 0..MaxDrift] :
        \A i, j \in 1..Cardinality(Venues) : i <= j => d[i] <= d[j]}
NoDrift == [i \in 1..Cardinality(Venues) |-> 0]

hasBidAsk(t) == t.bid # null /\ t.ask # null

venueMidsOf(validTicks, drift) ==
    [i \in 1..Len(validTicks) |->
        LET tick == validTicks[i]
            staleness == getStaleness(tick.venue, tick.pair, now + drift[i])
        IN  [name |-> tick.venue,
             mid |-> calculateMid(tick.bid, tick.ask),
             spread_bps |-> calculateSpreadBps(tick.bid, tick.ask),
             w |-> Int2Rat(0),
             age_ms |-> IF MapHas(cache, createKey(tick.venue, tick.pair)) /\ staleness # 0
                        THEN staleness ELSE 0]]

\* a getQuote that checks the minimum venue count only before it discards the
\* observations without bid/ask
getQuote_oneCheck(options, pair, drift) ==
    LET ticks == getByPair(pair, now)
        venueMids == venueMidsOf(SelectSeq(ticks, hasBidAsk), drift)
        maxStaleness == MaxOf([i \in 1..Len(venueMids) |-> venueMids[i].age_ms])
        weights == calculateWeights(venueMids)
        weightedMid == calculateWeightedAverage([i \in 1..Len(venueMids) |-> venueMids[i].mid],
                                                weights)
    IN  IF Len(ticks) < options.minVenues THEN null
        ELSE IF Len(venueMids) > 0 /\ maxStaleness > options.maxStaleness THEN null
        ELSE IF IsThrow(weightedMid) THEN weightedMid
        ELSE [pair |-> pair,
              price |-> weightedMid.value,
              vwap_30s |-> weightedMid.value,
              source_count |-> Len(venueMids),
              staleness_ms |-> maxStaleness,
              venues |-> [i \in 1..Len(venueMids) |-> [venueMids[i] EXCEPT !.w = weights[i]]]]

\* getQuote of a Compositor built with `options`; the result is null, a quote, or
\* a throw.  The quote record carries price, vwap_30s, source_count, staleness_ms
\* and venues; its bid and ask are bidAskOf(quote).
getQuote(options, pair, drift) ==
    LET ticks == getByPair(pair, now)
        validTicks == SelectSeq(ticks, hasBidAsk)
        venueMids == venueMidsOf(validTicks, drift)
        maxStaleness == MaxOf([i \in 1..Len(venueMids) |-> venueMids[i].age_ms])
        weights == calculateWeights(venueMids)
        weighted == [i \in 1..Len(venueMids) |-> [venueMids[i] EXCEPT !.w = weights[i]]]
        weightedMid == calculateWeightedAverage([i \in 1..Len(venueMids) |-> venueMids[i].mid],
                                                weights)
    IN  IF Len(ticks) < options.minVenues THEN null
        ELSE IF Len(validTicks) < options.minVenues THEN null
        ELSE IF Len(venueMids) > 0 /\ maxStaleness > options.maxStaleness THEN null
        ELSE IF IsThrow(weightedMid) THEN weightedMid
        ELSE [pair |-> pair,
              price |-> weightedMid.value,
              vwap_30s |-> weightedMid.value,
              source_count |-> Len(venueMids),
              staleness_ms |-> maxStaleness,
              venues |-> weighted]

IsQuote(q) == q # null /\ ~IsThrow(q)

\* getQuotes, one turn of the loop: the quotes so far with the next getQuote's result
pushQuote(before, quote) ==
    IF IsThrow(before) THEN before
    ELSE IF IsThrow(quote) THEN quote
    ELSE IF quote = null THEN before
    ELSE [value |-> Append(before.value, quote)]

\* the mutant of getQuotes used to test C24: each quote is put in front of the earlier ones
RECURSIVE getQuotes_newestFirst(_, _, _)
getQuotes_newestFirst(options, ps, drift) ==
    IF Len(ps) = 0 THEN [value |-> <<>>]
    ELSE LET before == getQuotes_newestFirst(options, SubSeq(ps, 1, Len(ps) - 1), drift)
             quote == getQuote(options, ps[Len(ps)], drift)
         IN  IF IsThrow(before) THEN before
             ELSE IF IsThrow(quote) THEN quote
             ELSE IF quote = null THEN before
             ELSE [value |-> <<quote>> \o before.value]

\* getQuotes(pairs): [value |-> the quotes], or the throw of the first getQuote that
\* throws.  Each getQuote reads the clock at the offsets drift after its own start.
RECURSIVE getQuotes(_, _, _)
getQuotes(options, ps, drift) ==
    IF Len(ps) = 0 THEN [value |-> <<>>]
    ELSE pushQuote(getQuotes(options, SubSeq(ps, 1, Len(ps) - 1), drift),
                   getQuote(options, ps[Len(ps)], drift))

\* Array.from(new Set(...)) of the pairs of the observations: each pair once, in the
\* order of its first observation
RECURSIVE uniquePairs(_)
uniquePairs(ticks) ==
    IF Len(ticks) = 0 THEN <<>>
    ELSE LET before == uniquePairs(SubSeq(ticks, 1, Len(ticks) - 1))
             pair == ticks[Len(ticks)].pair
         IN  IF \E i \in 1..Len(before) : before[i] = pair THEN before
             ELSE Append(before, pair)

getAllQuotes(options, drift) ==
    getQuotes(options, uniquePairs(getByVenue("binance", now)), drift)

\* Math.min of a non-empty list of numbers: NaN when one of them is NaN
RECURSIVE MinOfNumbers(_)
MinOfNumbers(s) ==
    IF Len(s) = 1 THEN s[1]
    ELSE LET m == MinOfNumbers(SubSeq(s, 1, Len(s) - 1))
             x == s[Len(s)]
         IN  IF IsNaN(m) \/ IsNaN(x) THEN NaN
             ELSE IF RatGt(m, x) THEN x ELSE m

\* The first `places` decimals of r/d (0 <= r < d): the digits as one integer, and the
\* remainder left after them.
RECURSIVE DecimalsOf(_, _, _)
DecimalsOf(r, d, places) ==
    IF places = 0 THEN [digits |-> 0, rest |-> r]
    ELSE LET before == DecimalsOf(r, d, places - 1)
         IN  [digits |-> 10 * before.digits + ((10 * before.rest) \div d),
              rest |-> (10 * before.rest) % d]

\* the number of decimals toFixed is called with, and 10 to that power
FIXED_PLACES == 8
FIXED_UNIT == 100000000

\* Number.prototype.toFixed(8): the decimal string, as its sign, its digits before the
\* point and its eight digits after it (one integer); the nearest such decimal, the
\* larger in magnitude of two equally near.  NaN and the infinities give their names.
toFixed(x) ==
    IF ~IsFinite(x) THEN x
    ELSE LET a == Abs(x[1])
             cut == DecimalsOf(a % x[2], x[2], FIXED_PLACES)
             up == 2 * cut.rest >= x[2]
             carry == up /\ cut.digits = FIXED_UNIT - 1
         IN  [neg |-> x[1] < 0,
              whole |-> (a \div x[2]) + (IF carry THEN 1 ELSE 0),
              frac |-> IF carry THEN 0 ELSE IF up THEN cut.digits + 1 ELSE cut.digits]

\* the mutant of calculateBidAsk used to test C31: the whole spread is put on each side
calculateBidAsk_wholeSpread(mid, spreadBps) ==
    LET halfSpread == RatMul(mid, RatDiv(spreadBps, Int2Rat(10000)))
    IN  [bid |-> toFixed(RatSub(mid, halfSpread)),
         ask |-> toFixed(RatAdd(mid, halfSpread))]

\* calculateBidAsk(mid, spreadBps): parseFloat(mid) is the number mid denotes
calculateBidAsk(mid, spreadBps) ==
    LET midNum == mid
        spreadFraction == RatDiv(spreadBps, Int2Rat(10000))
        halfSpread == RatDiv(RatMul(midNum, spreadFraction), Int2Rat(2))
    IN  [bid |-> toFixed(RatSub(midNum, halfSpread)),
         ask |-> toFixed(RatAdd(midNum, halfSpread))]

\* the bid and ask getQuote puts in the quote it returns
\* The arithmetic that computes and carries each monetary value of a quote: "Decimal"
\* is decimal.js (calculateMid and calculateWeightedAverage build Decimal values and
\* return their toString()), "number" is IEEE-754 binary64 (calculateBidAsk calls
\* parseFloat(mid), computes with number operators and formats with toFixed(8)).
carriedAs == [mid |-> "Decimal", price |-> "Decimal", bid |-> "number", ask |-> "number"]

\* x is a value of binary64: the finite values are the dyadic rationals (of the sizes the
\* model reaches, whose numerators are far below 2^53)
RECURSIVE IsPowerOfTwo(_)
IsPowerOfTwo(n) == n = 1 \/ (n > 1 /\ n % 2 = 0 /\ IsPowerOfTwo(n \div 2))
IsBinary64(x) == ~IsFinite(x) \/ IsPowerOfTwo(x[2])

\* parseFloat(str) returns the number str denotes
parseFloatIsExact(x) == IsBinary64(x)

bidAskOf(quote) ==
    calculateBidAsk(quote.price,
                    MinOfNumbers([i \in 1..Len(quote.venues) |-> quote.venues[i].spread_bps]))

(***************************************************************************)
(* The cache and the compositor: initial state and steps                   *)
(***************************************************************************)
CacheInit ==
    /\ now = 0
    /\ cache = <<>>
    /\ lastSet = [k \in AllKeys |-> null]
    /\ lastCall = [op |-> "new", result |-> 0]

Set == \E tick \in SampleTicks : set(tick)

CacheNext == Set \/ cleanup \/ clear \/ Advance

\* the same steps, with the operation and its return value recorded in lastCall
Called(op, result) == lastCall' = [op |-> op, result |-> result]
CacheCalls ==
    \/ Set /\ Called("set", 0)
    \/ cleanup /\ Called("cleanup", cleanupRemoved)
    \/ clear /\ Called("clear", 0)
    \/ Advance /\ Called("advance", 0)

\* Every public operation of the cache and of the compositor as one step: the feed's
\* tick listener calls set, the request handlers call the others.  Each method is
\* synchronous, so a call runs to its end before the next one starts.  lastCall records
\* the operation, its arguments and its return value; an operation that does not write
\* this.cache leaves the entries as they are.
Invoked(op, args, result) == lastCall' = [op |-> op, args |-> args, result |-> result]

\* getQuote(pair) returns a quote that counts the venue
Counts(venue, pair) ==
    LET q == getQuote(DefaultOptions, pair, NoDrift)
    IN  IsQuote(q) /\ \E i \in 1..Len(q.venues) : q.venues[i].name = venue
\* the key holds a fresh book-top observation with bid and ask
FreshBookTop(venue, pair) ==
    LET entry == MapGet(cache, createKey(venue, pair))
    IN  /\ entry # null
        /\ now - entry.insertedAt <= STALENESS_THRESHOLD_MS
        /\ entry.tick.type = "book"
        /\ hasBidAsk(entry.tick)
\* the fresh book tops getQuote counts, each with the stamp of its entry
CountedBookTops ==
    { [venue |-> venue, pair |-> pair,
       insertedAt |-> MapGet(cache, createKey(venue, pair)).insertedAt] :
        <<venue, pair>> \in {c \in Venues \X Pairs : FreshBookTop(c[1], c[2]) /\ Counts(c[1], c[2])} }
\* a call on record together with the book tops getQuote counted when it began
InvokedOver(op, args, result) ==
    lastCall' = [op |-> op, args |-> args, result |-> result, counted |-> CountedBookTops]
Reads(op, args, result) == Invoked(op, args, result) /\ UNCHANGED <<now, cache, lastSet>>

\* the observations of the feed: a book top and a trade print of one venue and pair, and
\* the book top of another venue
CallTicks ==
    { Tick("binance",  "BTC-USD", 7, Int2Rat(19998), Int2Rat(20002), "book"),
      Tick("binance",  "BTC-USD", 5, null, null, "trade"),
      Tick("coinbase", "BTC-USD", 7, Int2Rat(10000), Int2Rat(10000), "book") }
SetCall == \E tick \in CallTicks :
    set(tick) /\ InvokedOver("set", <<tick.venue, tick.pair>>, tick)
CleanupCall == cleanup /\ Invoked("cleanup", <<>>, cleanupRemoved)
ClearCall == clear /\ Invoked("clear", <<>>, 0)
Get == \E venue \in Venues, pair \in Pairs :
    Reads("get", <<venue, pair>>, get(venue, pair))
Has == \E venue \in Venues, pair \in Pairs :
    Reads("has", <<venue, pair>>, has(venue, pair))
GetByPair == \E pair \in Pairs : Reads("getByPair", <<pair>>, getByPair(pair, now))
GetByVenue == \E venue \in Venues : Reads("getByVenue", <<venue>>, getByVenue(venue, now))
GetStaleness == \E venue \in Venues, pair \in Pairs :
    Reads("getStaleness", <<venue, pair>>, getStaleness(venue, pair, now))
GetStats == Reads("getStats", <<>>, getStats)
GetQuote == \E pair \in Pairs :
    Reads("getQuote", <<pair>>, getQuote(DefaultOptions, pair, NoDrift))
GetQuotes == \E ps \in {<<"BTC-USD">>, <<"ETH-USD", "BTC-USD">>} :
    Reads("getQuotes", ps, getQuotes(DefaultOptions, ps, NoDrift))
GetAllQuotes == Reads("getAllQuotes", <<>>, getAllQuotes(DefaultOptions, NoDrift))
Tock == Advance /\ InvokedOver("advance", <<>>, 0)

CallNext ==
    \/ SetCall \/ CleanupCall \/ ClearCall
    \/ Get \/ Has \/ GetByPair \/ GetByVenue \/ GetStaleness \/ GetStats
    \/ GetQuote \/ GetQuotes \/ GetAllQuotes
    \/ Tock

\* One venue's book observations over a grid of bid and ask prices: equal, one apart,
\* two apart, crossed, and zero
GridPrices == {0, 19999, 20000, 20001}
GridTicks ==
    { Tick("binance", "BTC-USD", 7, Int2Rat(b), Int2Rat(a), "book") :
        b \in GridPrices, a \in GridPrices }

SetGrid == \E tick \in GridTicks : set(tick)

GridNext == SetGrid \/ cleanup \/ clear \/ Advance

\* One pair seen on two venues at small prices, so that half a spread of the composite
\* price has more than eight decimals; one observation is crossed.
BidAskTicks ==
    { Tick("binance",  "BTC-USD", 7, Int2Rat(1), Int2Rat(2), "book"),
      Tick("binance",  "BTC-USD", 7, Int2Rat(2), Int2Rat(1), "book"),
      Tick("coinbase", "BTC-USD", 7, Int2Rat(2), Int2Rat(2), "book"),
      Tick("coinbase", "BTC-USD", 7, Int2Rat(1), Int2Rat(3), "book") }

SetBidAsk == \E tick \in BidAskTicks : set(tick)

BidAskNext == SetBidAsk \/ cleanup \/ clear \/ Advance

\* The cache under observations of two pairs that both give quotes: one pair seen on
\* two venues, the other on binance only.
QuoteTicks ==
    { Tick("binance",  "BTC-USD", 7, Int2Rat(19998), Int2Rat(20002), "book"),
      Tick("coinbase", "BTC-USD", 7, Int2Rat(10000), Int2Rat(10000), "book"),
      Tick("binance",  "ETH-USD", 5, Int2Rat(3000), Int2Rat(3030), "book") }

SetQuoteTick == \E tick \in QuoteTicks : set(tick)

QuoteNext == SetQuoteTick \/ Advance

\* the pair lists getQuotes is called with: the pairs observed and one never observed
QuotedPairs == {t.pair : t \in QuoteTicks} \cup {"SOL-USD"}
PairLists ==
    { <<>>,
      <<"BTC-USD">>,
      <<"SOL-USD">>,
      <<"BTC-USD", "ETH-USD">>,
      <<"ETH-USD", "BTC-USD">>,
      <<"ETH-USD", "ETH-USD">>,
      <<"SOL-USD", "ETH-USD", "BTC-USD">>,
      <<"BTC-USD", "SOL-USD", "ETH-USD">> }

\* CompositorOptions as the constructor accepts them: any number is taken for minVenues
AnyOptionSets == [minVenues : 0..2, maxStaleness : {1000, MAX_STALENESS_MS, 3000}]

(***************************************************************************)
(* config/symbols                                                          *)
(***************************************************************************)
SYMBOL_MAP ==
    [p \in {"BTC-USD", "BTC-USDT", "ETH-USD", "ETH-USDT", "SOL-USD"} |->
        CASE p = "BTC-USD"  -> [binance |-> "BTCUSDT", coinbase |-> "BTC-USD",  kraken |-> "XBT/USD"]
          [] p = "BTC-USDT" -> [binance |-> "BTCUSDT", coinbase |-> "BTC-USDT", kraken |-> "XBT/USDT"]
          [] p = "ETH-USD"  -> [binance |-> "ETHUSDT", coinbase |-> "ETH-USD",  kraken |-> "ETH/USD"]
          [] p = "ETH-USDT" -> [binance |-> "ETHUSDT", coinbase |-> "ETH-USDT", kraken |-> "ETH/USDT"]
          [] p = "SOL-USD"  -> [binance |-> "SOLUSDT", coinbase |-> "SOL-USD",  kraken |-> "SOL/USD"]]

isPairSupported(pair) == pair \in DOMAIN SYMBOL_MAP
\* throws for an unknown pair: used where isPairSupported(pair)
symbolToBinance(pair) == SYMBOL_MAP[pair].binance

\* the keys of SYMBOL_MAP in the order Object.entries yields them
SYMBOL_KEYS == <<"BTC-USD", "BTC-USDT", "ETH-USD", "ETH-USDT", "SOL-USD">>

\* the mutant of binanceToSymbol used to test C19: an unknown symbol falls back to the
\* first pair of the map
binanceToSymbol_fallback(binanceSymbol) ==
    LET hits == SelectSeq(SYMBOL_KEYS, LAMBDA k : SYMBOL_MAP[k].binance = binanceSymbol)
    IN  IF Len(hits) = 0 THEN [value |-> SYMBOL_KEYS[1]] ELSE [value |-> hits[1]]

\* [value |-> the first pair whose Binance symbol is binanceSymbol], or a throw when
\* there is none
binanceToSymbol(binanceSymbol) ==
    LET hits == SelectSeq(SYMBOL_KEYS, LAMBDA k : SYMBOL_MAP[k].binance = binanceSymbol)
    IN  IF Len(hits) = 0 THEN threw("Unknown Binance symbol") ELSE [value |-> hits[1]]

(***************************************************************************)
(* BinanceAdapter                                                          *)
(*                                                                         *)
(* A socket is [state, wait, cur, url]: state is its readyState; wait is   *)
(* the promise connect() awaits for it ("pending" until the open listener, *)
(* the error listener or the 10 s timeout settles it); url is the endpoint *)
(* it was opened on.  A closed socket with a settled promise that is not   *)
(* this.ws is dropped from socks: nothing can happen to it any more.       *)
(***************************************************************************)
BINANCE_WS_URLS ==
    << "wss://data-stream.binance.vision/stream",
       "wss://stream.binance.com:9443/stream",
       "wss://stream.binance.com:443/stream" >>

\* the pair lists an adapter is constructed with
PairConfigs == { <<"BTC-USD", "ETH-USD">>, <<"DOGE-USD">> }

\* the stream names connect() builds: one per configured pair the symbol map knows
streamsOf(ps) ==
    LET supported == SelectSeq(ps, isPairSupported)
    IN  [i \in 1..Len(supported) |-> symbolToBinance(supported[i])]

Min(a, b) == IF a < b THEN a ELSE b

\* the adapter's fields, as one record the handlers transform
Adapter ==
    [socks |-> socks,
     reconnectAttempts |-> reconnectAttempts,
     reconnectTimeout |-> reconnectTimeout,
     shouldReconnect |-> shouldReconnect,
     currentUrlIndex |-> currentUrlIndex,
     stats |-> stats]

HasWs(a) == \E i \in 1..Len(a.socks) : a.socks[i].cur
WsOf(a) == a.socks[CHOOSE i \in 1..Len(a.socks) : a.socks[i].cur]

Gone(sk) == sk.state = "CLOSED" /\ sk.wait = "settled" /\ ~sk.cur
Prune(a) == [a EXCEPT !.socks = SelectSeq(a.socks, LAMBDA sk : ~Gone(sk))]
Live(a) == Len(SelectSeq(a.socks, LAMBDA sk : sk.state # "CLOSED"))

\* a scheduleReconnect that stops after five attempts
scheduleReconnect_givesUp(a) ==
    IF a.reconnectTimeout # null \/ a.reconnectAttempts >= 5 THEN a
    ELSE [a EXCEPT !.reconnectAttempts = @ + 1,
                   !.stats.reconnectAttempts = a.reconnectAttempts + 1,
                   !.reconnectTimeout =
                       <<Min(INITIAL_RECONNECT_DELAY * 2 ^ a.reconnectAttempts,
                             MAX_RECONNECT_DELAY)>>]

\* a scheduleReconnect that does not look for a pending timer
scheduleReconnect_again(a) ==
    LET rotate == a.reconnectAttempts > 0 /\ a.reconnectAttempts % 3 = 0
        delay == Min(INITIAL_RECONNECT_DELAY * 2 ^ a.reconnectAttempts, MAX_RECONNECT_DELAY)
    IN  [a EXCEPT !.currentUrlIndex = IF rotate THEN (@ + 1) % Len(BINANCE_WS_URLS) ELSE @,
                  !.reconnectAttempts = @ + 1,
                  !.stats.reconnectAttempts = a.reconnectAttempts + 1,
                  !.reconnectTimeout = <<delay>>]

scheduleReconnect(a) ==
    IF a.reconnectTimeout # null THEN a
    ELSE LET rotate == a.reconnectAttempts > 0 /\ a.reconnectAttempts % 3 = 0
             delay == Min(INITIAL_RECONNECT_DELAY * 2 ^ a.reconnectAttempts,
                          MAX_RECONNECT_DELAY)
         IN  [a EXCEPT !.currentUrlIndex = IF rotate THEN (@ + 1) % Len(BINANCE_WS_URLS) ELSE @,
                       !.reconnectAttempts = @ + 1,
                       !.stats.reconnectAttempts = a.reconnectAttempts + 1,
                       !.reconnectTimeout = <<delay>>]

\* an onopen that keeps the attempt counter
onopen_keepsAttempts(a) == [a EXCEPT !.stats.connected = TRUE]

\* ws.onopen
onopen(a) ==
    [a EXCEPT !.reconnectAttempts = 0,
              !.stats.connected = TRUE,
              !.stats.reconnectAttempts = 0]

\* ws.onerror
onerror(a) == [a EXCEPT !.stats.errors = @ + 1]

\* ws.onclose
onclose(a) ==
    LET b == [a EXCEPT !.stats.connected = FALSE]
    IN  IF b.shouldReconnect THEN scheduleReconnect(b) ELSE b

\* the catch block of connect(): runs when the awaited promise rejects or the
\* try block throws
connectCatch(a) ==
    LET b == [a EXCEPT !.stats.errors = @ + 1]
    IN  IF b.shouldReconnect THEN scheduleReconnect(b) ELSE b

\* connect() up to its await
connect(a) ==
    IF HasWs(a) /\ WsOf(a).state = "OPEN" THEN a
    ELSE IF Len(streamsOf(pairs)) = 0 THEN connectCatch(a)
    ELSE [a EXCEPT !.socks =
             Append([i \in 1..Len(a.socks) |-> [a.socks[i] EXCEPT !.cur = FALSE]],
                    [state |-> "CONNECTING", wait |-> "pending", cur |-> TRUE,
                     url |-> BINANCE_WS_URLS[a.currentUrlIndex + 1]])]

\* a disconnect that leaves the reconnect timer running
disconnect_keepsTimer(a) ==
    [a EXCEPT !.shouldReconnect = FALSE,
              !.stats.connected = FALSE,
              !.socks = [i \in 1..Len(a.socks) |->
                           [a.socks[i] EXCEPT
                              !.state = IF a.socks[i].cur /\ @ # "CLOSED" THEN "CLOSING" ELSE @,
                              !.cur = FALSE]]]

disconnect(a) ==
    LET b == [a EXCEPT !.shouldReconnect = FALSE, !.reconnectTimeout = null]
        closed == [i \in 1..Len(b.socks) |->
                     IF b.socks[i].cur
                     THEN [b.socks[i] EXCEPT
                             !.state = IF @ = "CLOSED" THEN "CLOSED" ELSE "CLOSING",
                             !.cur = FALSE]
                     ELSE b.socks[i]]
    IN  [b EXCEPT !.socks = closed, !.stats.connected = FALSE]

isConnected == HasWs(Adapter) /\ WsOf(Adapter).state = "OPEN"

\* the socket's open event: ws.onopen, then the open listener resolves the promise
openEvent(a, i) ==
    onopen([a EXCEPT !.socks[i].state = "OPEN", !.socks[i].wait = "settled"])

\* the socket's close, with or without an error event before it: ws.onerror, the
\* error listener rejecting the promise (connect()'s catch block runs), ws.onclose
closeEvent(a, i, withError) ==
    LET b == IF withError THEN onerror(a) ELSE a
        c == IF withError /\ b.socks[i].wait = "pending"
             THEN connectCatch([b EXCEPT !.socks[i].wait = "settled"])
             ELSE b
    IN  onclose([c EXCEPT !.socks[i].state = "CLOSED"])

\* the mutant of timeoutEvent used to test C21: the call that timed out tries again itself
timeoutEvent_retries(a, i) ==
    connect([a EXCEPT !.socks[i].wait = "settled", !.stats.errors = @ + 1])

\* the 10 s timer of connect() rejects the promise: the catch block runs
timeoutEvent(a, i) == connectCatch([a EXCEPT !.socks[i].wait = "settled"])

\* the reconnect timer's callback
timerCallback(a) == connect([a EXCEPT !.reconnectTimeout = null])

\* The frames a socket hands to ws.onmessage, as the text of event.data
FrameGarbage == "invalid json"
FrameNull == "null"
FrameNoData == "{\"stream\":\"test\",\"data\":null}"
FrameNoSymbol == "{\"stream\":\"btcusdt@bookTicker\",\"data\":{\"u\":1}}"
FrameUnknown ==
    "{\"stream\":\"unknown@bookTicker\",\"data\":{\"u\":2,\"s\":\"UNKNOWN\",\"b\":\"100.00\",\"a\":\"101.00\"}}"
FrameBtc ==
    "{\"stream\":\"btcusdt@bookTicker\",\"data\":{\"u\":3,\"s\":\"BTCUSDT\",\"b\":\"50000.00\",\"a\":\"50001.00\"}}"
FrameEth ==
    "{\"stream\":\"ethusdt@bookTicker\",\"data\":{\"u\":4,\"s\":\"ETHUSDT\",\"b\":\"3000.00\",\"a\":\"3001.00\"}}"
Frames == {FrameGarbage, FrameNull, FrameNoData, FrameNoSymbol, FrameUnknown, FrameBtc, FrameEth}

\* JSON.parse of a frame: a throw, or the value.  A message object is [stream, data];
\* its data is null or [s, b, a].  A field the text leaves out is undefined: null for
\* b and a, and for s the empty string, which is falsy as undefined is.  The decimal
\* strings b and a are held as the numbers they denote.
JSONparse(data) ==
    CASE data = FrameGarbage -> threw("SyntaxError")
      [] data = FrameNull -> [value |-> null]
      [] data = FrameNoData -> [value |-> [stream |-> "test", data |-> null]]
      [] data = FrameNoSymbol ->
            [value |-> [stream |-> "btcusdt@bookTicker",
                        data |-> [s |-> "", b |-> null, a |-> null]]]
      [] data = FrameUnknown ->
            [value |-> [stream |-> "unknown@bookTicker",
                        data |-> [s |-> "UNKNOWN", b |-> Int2Rat(100), a |-> Int2Rat(101)]]]
      [] data = FrameBtc ->
            [value |-> [stream |-> "btcusdt@bookTicker",
                        data |-> [s |-> "BTCUSDT", b |-> Int2Rat(50000), a |-> Int2Rat(50001)]]]
      [] data = FrameEth ->
            [value |-> [stream |-> "ethusdt@bookTicker",
                        data |-> [s |-> "ETHUSDT", b |-> Int2Rat(3000), a |-> Int2Rat(3001)]]]

\* the mutant of handleCatch used to test C17: the catch block does not count the error
handleCatch_uncounted(a) == [a |-> a, tick |-> null]

\* the catch block of handleMessage
handleCatch(a) == [a |-> [a EXCEPT !.stats.errors = @ + 1], tick |-> null]

\* the mutant of emit used to test C20: the observation is passed on without being counted
emit_uncounted(a, tick) ==
    [a |-> [a EXCEPT !.stats.lastMessageTime = tick.ts], tick |-> tick]

\* the end of handleMessage: the counters, then this.onTick(tick)
emit(a, tick) ==
    [a |-> [a EXCEPT !.stats.messagesReceived = @ + 1, !.stats.lastMessageTime = tick.ts],
     tick |-> tick]

\* handleMessage(data) when Date.now() reads ts: the adapter's fields after it and the
\* observation it passed to the tick callback (null: none).  Reading .data of the
\* value null throws a TypeError inside the try block.
handleMessage(a, data, ts) ==
    LET parsed == JSONparse(data)
    IN  IF IsThrow(parsed) THEN handleCatch(a)
        ELSE LET message == parsed.value
             IN  IF message = null THEN handleCatch(a)
                 ELSE IF message.data = null \/ message.data.s = ""
                 THEN [a |-> a, tick |-> null]
                 ELSE LET ticker == message.data
                          pair == binanceToSymbol(ticker.s)
                      IN  IF IsThrow(pair)
                          THEN [a |-> a, tick |-> null]
                          ELSE emit(a, Tick("binance", pair.value, ts, ticker.b, ticker.a,
                                           "book"))

(***************************************************************************)
(* The adapter: initial state and steps                                    *)
(***************************************************************************)
FeedInit ==
    /\ pairs \in PairConfigs
    /\ socks = <<>>
    /\ reconnectAttempts = 0
    /\ reconnectTimeout = null
    /\ shouldReconnect = TRUE
    /\ currentUrlIndex = 0
    /\ stats = [connected |-> FALSE, reconnectAttempts |-> 0, messagesReceived |-> 0,
                lastMessageTime |-> 0, errors |-> 0]
    /\ hist = [disconnected |-> FALSE, cancelled |-> FALSE, lateEvent |-> FALSE,
               auto |-> FALSE, calls |-> 0, k |-> 0, fails |-> 0, fired |-> FALSE]
    /\ received = <<>>
    /\ delivered = <<>>
    /\ conn = [by |-> <<>>, event |-> "new", caller |-> "none", result |-> "none",
               made |-> 0, observed |-> FALSE]

\* the counters stay within the caps of the model
Within(a) == a.reconnectAttempts <= MaxAttempts /\ a.stats.errors <= MaxErrors

\* a reconnect timer was set between a and b
Scheduled(a, b) == a.reconnectTimeout = null /\ b.reconnectTimeout # null

\* The step from the adapter's fields to b.  from: the fields when the handler started,
\* after the fired timer (if any) was taken off; failed: a connect() call ended in its
\* catch block in this step.  hist records
\*   disconnected  disconnect() has been called
\*   cancelled     a disconnect() call found a reconnect timer pending
\*   lateEvent     a socket event or connect timeout was handled after disconnect()
\*   auto          the reconnect timer fired after disconnect()
\*   calls         the connect() calls made by the adapter's user
\*   k             the reconnect timers set since the last open event (or the start)
\*   fails         the connect() calls that failed since the last open event (or the start)
\*   fired         this step was the reconnect timer firing
Becomes(from, b, event, failed) ==
    /\ Within(b)
    /\ socks' = Prune(b).socks
    /\ reconnectAttempts' = b.reconnectAttempts
    /\ reconnectTimeout' = b.reconnectTimeout
    /\ shouldReconnect' = b.shouldReconnect
    /\ currentUrlIndex' = b.currentUrlIndex
    /\ stats' = b.stats
    /\ hist' = [hist EXCEPT
                  !.disconnected = @ \/ event = "disconnect",
                  !.cancelled = @ \/ (event = "disconnect" /\ reconnectTimeout # null),
                  !.lateEvent = @ \/ (hist.disconnected /\ event \in {"open", "close", "timeout"}),
                  !.auto = @ \/ (hist.disconnected /\ event = "timer"),
                  !.calls = IF event = "connect" THEN @ + 1 ELSE @,
                  !.k = IF event = "open" THEN 0
                        ELSE IF Scheduled(from, b) THEN @ + 1 ELSE @,
                  !.fails = IF event = "open" THEN 0
                            ELSE IF failed THEN @ + 1 ELSE @,
                  !.fired = (event = "timer")]
    /\ UNCHANGED pairs

\* connect() throws before it creates a socket
ConnectThrows(a) == ~(HasWs(a) /\ WsOf(a).state = "OPEN") /\ Len(streamsOf(pairs)) = 0

\* a caller of the adapter calls connect()
Connect ==
    /\ hist.calls < MaxCalls
    /\ Live(Adapter) + (IF reconnectTimeout # null THEN 1 ELSE 0) < MaxLive
    /\ Becomes(Adapter, connect(Adapter), "connect", ConnectThrows(Adapter))

\* a caller of the adapter calls disconnect()
Disconnect == Becomes(Adapter, disconnect(Adapter), "disconnect", FALSE)

\* the transport opens the connecting socket i
SockOpenAt(i) ==
    /\ socks[i].state = "CONNECTING"
    /\ Becomes(Adapter, openEvent(Adapter, i), "open", FALSE)

SockOpen == \E i \in 1..Len(socks) : SockOpenAt(i)

\* the transport closes a socket: a failed connection attempt, a lost connection,
\* or the end of the closing handshake.  A connection that was never established
\* ends with an error event before the close event.
SockCloseAt(i, withError) ==
    /\ socks[i].state # "CLOSED"
    /\ socks[i].wait = "pending" => withError
    /\ Becomes(Adapter, closeEvent(Adapter, i, withError), "close",
               socks[i].wait = "pending")

SockClose == \E i \in 1..Len(socks), withError \in BOOLEAN : SockCloseAt(i, withError)

\* the 10 s timer of a connect() call fires before its socket opened or failed
ConnectTimeoutAt(i) ==
    /\ socks[i].wait = "pending"
    /\ reconnectTimeout # null \/ ~shouldReconnect \/ Live(Adapter) < MaxLive
    /\ Becomes(Adapter, timeoutEvent(Adapter, i), "timeout", TRUE)

ConnectTimeout == \E i \in 1..Len(socks) : ConnectTimeoutAt(i)

\* the reconnect timer fires
ReconnectTimer ==
    /\ reconnectTimeout # null
    /\ Becomes([Adapter EXCEPT !.reconnectTimeout = null], timerCallback(Adapter), "timer",
               ConnectThrows(Adapter))

FeedNext == Connect \/ Disconnect \/ SockOpen \/ SockClose \/ ConnectTimeout \/ ReconnectTimer

\* the mutant of propagates used to test C22: the reconnect timer's callback does not
\* catch the rejection of the connect() it called
propagates_uncaught(caller, rejected) == rejected

\* The rejection of a connect() call reaches the adapter's user: connect() rethrows from
\* its catch block to its caller, and the reconnect timer's callback catches and logs
\* what the connect() it called rejects with.
propagates(caller, rejected) == rejected /\ caller = "user"

\* conn.by after a step to the sockets bs: the callers of the sockets that stay
KeptBy(bs, by) ==
    LET keep == SelectSeq([i \in 1..Len(bs) |-> i], LAMBDA i : ~Gone(bs[i]))
    IN  [j \in 1..Len(keep) |-> by[keep[j]]]

\* conn records, for the step to the adapter's fields b,
\*   by        per socket, who called the connect() that created it
\*   event     the handler that ran
\*   caller    who called the connect() this step started or settled ("none": no call)
\*   result    how that call stands: "pending" at its await, "resolved", "rejected"
\*   made      the sockets created in this step
\*   observed  a failure reached the adapter's user in this step
Noted(b, event, caller, result) ==
    LET made == Len(b.socks) - Len(socks)
        by == IF made > 0 THEN Append(conn.by, caller) ELSE conn.by
    IN  conn' = [by |-> KeptBy(b.socks, by), event |-> event, caller |-> caller,
                 result |-> result, made |-> made,
                 observed |-> propagates(caller, result = "rejected")]

\* how a connect() call stands when it returns to the event loop
connectResult(a) ==
    IF HasWs(a) /\ WsOf(a).state = "OPEN" THEN "resolved"
    ELSE IF ConnectThrows(a) THEN "rejected"
    ELSE "pending"

\* the step to b is an event of socket i: it settles the connect() call that awaits
\* the socket, if the call is still pending
Settles(b, i, event, result) ==
    IF socks[i].wait = "pending"
    THEN Noted(b, event, conn.by[i], result)
    ELSE Noted(b, event, "none", "none")

\* the steps of the adapter, with the connect() calls and their outcomes on record
ConnCalls ==
    \/ Connect /\ Noted(connect(Adapter), "connect", "user", connectResult(Adapter))
    \/ Disconnect /\ Noted(disconnect(Adapter), "disconnect", "none", "none")
    \/ \E i \in 1..Len(socks) :
          SockOpenAt(i) /\ Settles(openEvent(Adapter, i), i, "open", "resolved")
    \/ \E i \in 1..Len(socks), withError \in BOOLEAN :
          SockCloseAt(i, withError)
              /\ Settles(closeEvent(Adapter, i, withError), i, "close", "rejected")
    \/ \E i \in 1..Len(socks) :
          ConnectTimeoutAt(i) /\ Settles(timeoutEvent(Adapter, i), i, "timeout", "rejected")
    \/ ReconnectTimer /\ Noted(timerCallback(Adapter), "timer", "timer",
                                connectResult(Adapter))

\* the tick callback the server passes to the adapter
onTick(tick) == set(tick)

\* an open socket hands a frame to ws.onmessage
Message ==
    \E i \in 1..Len(socks), data \in Frames :
        /\ socks[i].state = "OPEN"
        /\ Len(received) < MaxFrames
        /\ LET r == handleMessage(Adapter, data, now)
           IN  /\ Becomes(Adapter, r.a, "message", FALSE)
               /\ received' = Append(received, data)
               /\ IF r.tick = null
                  THEN UNCHANGED <<now, cache, lastSet, delivered>>
                  ELSE onTick(r.tick) /\ delivered' = Append(delivered, r.tick)
        /\ UNCHANGED lastCall

\* the feed of the running server: the adapter connects and frames arrive over time
MsgNext ==
    \/ Connect /\ UNCHANGED <<cacheVars, msgVars, conn>>
    \/ SockOpen /\ UNCHANGED <<cacheVars, msgVars, conn>>
    \/ Message /\ UNCHANGED conn
    \/ Advance /\ UNCHANGED <<lastCall, feedVars>>

(***************************************************************************)
(* Specifications                                                          *)
(***************************************************************************)
\* the cache and the compositor, beside an adapter that is not started
Init == CacheInit /\ FeedInit /\ pairs = <<"BTC-USD", "ETH-USD">>
Next == CacheNext /\ UNCHANGED <<feedVars, lastCall>>
Spec == Init /\ [][Next]_vars

\* the cache, with its calls and their return values on record
CacheSpecNext == CacheCalls /\ UNCHANGED feedVars
CacheSpec == Init /\ [][CacheSpecNext]_vars

\* the cache and the compositor, every operation a step with its call on record
CallSpecNext == CallNext /\ UNCHANGED feedVars
CallSpec == Init /\ [][CallSpecNext]_vars

\* the cache and the compositor over the grid of prices of one venue
GridSpecNext == GridNext /\ UNCHANGED <<feedVars, lastCall>>
GridSpec == Init /\ [][GridSpecNext]_vars

(***************************************************************************)
(* config/env and the server's wiring                                      *)
(***************************************************************************)
\* process.env, as far as the trading configuration reads it: a variable is a string or
\* is not set
Envs ==
    {[PAIRS |-> "BTC-USD,ETH-USD"]}
        \cup [PAIRS : {"BTC-USD,ETH-USD"}, STALE_MS : {"1000", "2000", "3000"},
                                            SPREAD_BPS_MAX : {"25", "100"}]

Digit(c) ==
    CASE c = "0" -> 0 [] c = "1" -> 1 [] c = "2" -> 2 [] c = "3" -> 3 [] c = "4" -> 4
      [] c = "5" -> 5 [] c = "6" -> 6 [] c = "7" -> 7 [] c = "8" -> 8 [] c = "9" -> 9

\* parseInt(str, 10) of a string of decimal digits
RECURSIVE parseInt(_)
parseInt(str) ==
    IF Len(str) = 0 THEN 0
    ELSE 10 * parseInt(SubSeq(str, 1, Len(str) - 1)) + Digit(SubSeq(str, Len(str), Len(str)))

\* loadConfig: the schema's defaults, then parseInt
loadConfig(env) ==
    [spreadBpsMax |-> parseInt(IF "SPREAD_BPS_MAX" \in DOMAIN env THEN env.SPREAD_BPS_MAX
                               ELSE "25"),
     staleMs |-> parseInt(IF "STALE_MS" \in DOMAIN env THEN env.STALE_MS ELSE "2000")]

\* the options of the server's compositor: new Compositor(cache, { minVenues: 1 }) on
\* new MemoryCache(), whatever the configuration holds
serverOptions(config) == [minVenues |-> 1, maxStaleness |-> MAX_STALENESS_MS]

\* the quote the server's price handler gets for a pair
servedQuote(config, pair, drift) == getQuote(serverOptions(config), pair, drift)

(***************************************************************************)
(* middleware/route-matcher, middleware/x402, api/price and the server's   *)
(* fetch handler                                                           *)
(***************************************************************************)
LowerCase == "abcdefghijklmnopqrstuvwxyz"
UpperCase == "ABCDEFGHIJKLMNOPQRSTUVWXYZ"
Digits == "0123456789"

CharAt(str, i) == SubSeq(str, i, i)
Includes(str, c) == \E i \in 1..Len(str) : CharAt(str, i) = c
\* String.prototype.indexOf, counted from 1: 0 when c is not in str
IndexOf(str, c) ==
    IF Includes(str, c) THEN CHOOSE i \in 1..Len(str) :
                                 /\ CharAt(str, i) = c
                                 /\ \A j \in 1..(i - 1) : CharAt(str, j) # c
    ELSE 0

\* the upper-case letter of each lower-case letter
UpperOf ==
    [c \in {CharAt(LowerCase, i) : i \in 1..Len(LowerCase)} |->
        CharAt(UpperCase, IndexOf(LowerCase, c))]

\* String.prototype.toUpperCase
RECURSIVE toUpperCase(_)
toUpperCase(str) ==
    IF Len(str) = 0 THEN ""
    ELSE LET c == CharAt(str, 1)
         IN  (IF c \in DOMAIN UpperOf THEN UpperOf[c] ELSE c)
                 \o toUpperCase(SubSeq(str, 2, Len(str)))

\* String.prototype.trim, for blanks
RECURSIVE trim(_)
trim(str) ==
    IF Len(str) > 0 /\ CharAt(str, 1) = " " THEN trim(SubSeq(str, 2, Len(str)))
    ELSE IF Len(str) > 0 /\ CharAt(str, Len(str)) = " "
         THEN trim(SubSeq(str, 1, Len(str) - 1))
    ELSE str

\* String.prototype.split(c): the parts, in order
RECURSIVE split(_, _)
split(str, c) ==
    IF ~Includes(str, c) THEN <<str>>
    ELSE LET i == IndexOf(str, c)
         IN  <<SubSeq(str, 1, i - 1)>> \o split(SubSeq(str, i + 1, Len(str)), c)

\* PairSchema: z.string().regex(/^[A-Z0-9]+-(?:USD|USDT|USDC)$/)
PairSchema(str) ==
    \E i \in 2..Len(str) :
        /\ CharAt(str, i) = "-"
        /\ \A j \in 1..(i - 1) : Includes(UpperCase \o Digits, CharAt(str, j))
        /\ SubSeq(str, i + 1, Len(str)) \in {"USD", "USDT", "USDC"}

\* the keys of protectedRoutes, in order
protectedRoutes == <<"GET /v1/price", "GET /v1/quotes">>

\* the characters of a path that the pattern's source escapes with a backslash
Escaped == "$()+.?^{|}/"
\* the length of the source of the RegExp made from a path without "*" and "[param]"
RECURSIVE sourceLength(_)
sourceLength(path) ==
    IF Len(path) = 0 THEN 2
    ELSE (IF Includes(Escaped, CharAt(path, 1)) THEN 2 ELSE 1)
             + sourceLength(SubSeq(path, 2, Len(path)))

\* computeRoutePatterns, for one key: the verb in upper case, and the pattern.  The
\* pattern made from a path without "*" and "[param]" is /^path$/i: it is kept as the
\* path in upper case, with the length of its source.
routePattern(pattern) ==
    LET sp == IndexOf(pattern, " ")
        parts == IF sp > 0 THEN <<SubSeq(pattern, 1, sp - 1),
                                  SubSeq(pattern, sp + 1, Len(pattern))>>
                 ELSE <<"*", pattern>>
        verb == IF parts[1] = "" THEN "*" ELSE parts[1]
        path == IF parts[2] = "" THEN parts[1] ELSE parts[2]
    IN  [verb |-> toUpperCase(verb), path |-> toUpperCase(path),
         source |-> sourceLength(path)]

computeRoutePatterns(routes) == [i \in 1..Len(routes) |-> routePattern(routes[i])]

\* the patterns the middleware is created with
routePatterns == computeRoutePatterns(protectedRoutes)

\* pattern.test(path) of /^path$/i
patternTest(route, path) == route.path = toUpperCase(path)

RECURSIVE collapseSlashes(_)
collapseSlashes(str) ==
    IF Len(str) < 2 THEN str
    ELSE IF CharAt(str, 1) = "/" /\ CharAt(str, 2) = "/"
         THEN collapseSlashes(SubSeq(str, 2, Len(str)))
    ELSE CharAt(str, 1) \o collapseSlashes(SubSeq(str, 2, Len(str)))

\* .replace(/(.+?)\/+$/, "$1")
RECURSIVE trimTrailingSlashes(_)
trimTrailingSlashes(str) ==
    IF Len(str) > 1 /\ CharAt(str, Len(str)) = "/"
    THEN trimTrailingSlashes(SubSeq(str, 1, Len(str) - 1))
    ELSE str

\* the path as findMatchingRoute normalises it.  The path is URL.pathname: it holds no
\* "?", "#" or backslash, and the paths requested here hold no "%" escape to decode.
normalizePath(path) ==
    trimTrailingSlashes(collapseSlashes(IF path = "" THEN "/" ELSE path))

\* Array.prototype.reduce((a, b) => b longer than a ? b : a)
RECURSIVE longestOf(_)
longestOf(routes) ==
    IF Len(routes) = 1 THEN routes[1]
    ELSE LET a == longestOf(SubSeq(routes, 1, Len(routes) - 1))
             b == routes[Len(routes)]
         IN  IF b.source > a.source THEN b ELSE a

\* findMatchingRoute: the route, or null for undefined
findMatchingRoute(patterns, path, method) ==
    LET normalizedPath == normalizePath(path)
        Matches(route) ==
            /\ patternTest(route, normalizedPath)
            /\ (route.verb = "*" \/ toUpperCase(method) = route.verb)
        matchingRoutes == SelectSeq(patterns, Matches)
    IN  IF Len(matchingRoutes) = 0 THEN null ELSE longestOf(matchingRoutes)

\* X-PAYMENT headers: the base64 of {"x402Version":1}, and the base64 of a text that is
\* not JSON
PaymentHeader == "eyJ4NDAyVmVyc2lvbiI6MX0="
UndecodableHeader == "bm90IGpzb24="

\* JSON.parse(safeBase64Decode(paymentHeader)), for the headers above
decodePayment(paymentHeader) ==
    IF paymentHeader = PaymentHeader THEN [value |-> [x402Version |-> 1]]
    ELSE threw("Unexpected token")

\* What the facilitator does with a POST: the fetch throws, the response is not ok, or
\* it is ok and carries isValid (verify) or success (settle), true or false.
VerifyAnswers == {"throws", "notOk", "invalid", "valid"}
SettleAnswers == {"throws", "notOk", "failed", "success"}
Facilitators == [verify : VerifyAnswers, settle : SettleAnswers]

\* a POST made to the facilitator, with what came of it
Post(endpoint, answer) == [post |-> endpoint, answer |-> answer]

\* the mutant of verifyPayment used to test C29: the settlement's result is not looked at
verifyPayment_unsettled(paymentHeader, facilitator) ==
    LET verify == Post("verify", facilitator.verify)
        settle == Post("settle", facilitator.settle)
    IN  IF IsThrow(decodePayment(paymentHeader)) THEN [isValid |-> FALSE, calls |-> <<>>]
        ELSE IF facilitator.verify # "valid" THEN [isValid |-> FALSE, calls |-> <<verify>>]
        ELSE [isValid |-> facilitator.settle # "throws", calls |-> <<verify, settle>>]

\* verifyPayment: what it resolves to, and the POSTs it made to the facilitator
verifyPayment(paymentHeader, facilitator) ==
    LET verify == Post("verify", facilitator.verify)
        settle == Post("settle", facilitator.settle)
    IN  IF IsThrow(decodePayment(paymentHeader)) THEN [isValid |-> FALSE, calls |-> <<>>]
        ELSE IF facilitator.verify # "valid" THEN [isValid |-> FALSE, calls |-> <<verify>>]
        ELSE [isValid |-> facilitator.settle = "success", calls |-> <<verify, settle>>]

create402Response(error) == [status |-> 402, body |-> [x402Version |-> 1, error |-> error]]

\* req.headers.get(name) and url.searchParams.get(name): [value |-> the string], or null
Lookup(fields, name) == IF name \in DOMAIN fields THEN [value |-> fields[name]] ELSE null
Falsy(got) == got = null \/ got.value = ""

\* the middleware createX402Middleware returns: the response (null: the request goes on)
\* and the POSTs made to the facilitator
x402Middleware(req, pathname, method, facilitator) ==
    LET matchingRoute == findMatchingRoute(routePatterns, pathname, method)
        paymentHeader == Lookup(req.headers, "X-PAYMENT")
        verified == verifyPayment(paymentHeader.value, facilitator)
    IN  IF matchingRoute = null THEN [response |-> null, calls |-> <<>>]
        ELSE IF Falsy(paymentHeader)
             THEN [response |-> create402Response("payment_required"), calls |-> <<>>]
        ELSE IF ~verified.isValid
             THEN [response |-> create402Response("invalid_payment"),
                   calls |-> verified.calls]
        ELSE [response |-> null, calls |-> verified.calls]

\* the response to a handler's result: an exception the handler lets out is answered
\* with 500
Answer(result) ==
    IF IsThrow(result) THEN [status |-> 500, body |-> [error |-> result.threw]]
    ELSE result

\* handlePriceRequest, from the quote on: the response for what getQuote returned
priceResponse(quote) ==
    IF IsThrow(quote) THEN quote
    ELSE IF quote = null
    THEN [status |-> 503, body |-> [error |-> "No data available for pair"]]
    ELSE [status |-> 200, body |-> quote]

\* handlePriceRequest
handlePriceRequest(req, config) ==
    LET pairParam == Lookup(req.query, "pair")
    IN  IF Falsy(pairParam)
        THEN [status |-> 400, body |-> [error |-> "Missing required parameter: pair"]]
        ELSE IF ~PairSchema(pairParam.value)
        THEN [status |-> 400, body |-> [error |-> "Invalid pair format"]]
        ELSE priceResponse(servedQuote(config, pairParam.value, NoDrift))

\* handleQuotesRequest, from the quotes on: the response for what getAllQuotes or
\* getQuotes returned; requested is null when no pairs were
quotesResponse(quotes, requested) ==
    IF IsThrow(quotes) THEN quotes
    ELSE [status |-> 200,
          body |-> IF requested = null
                   THEN [quotes |-> quotes.value, count |-> Len(quotes.value)]
                   ELSE [quotes |-> quotes.value, count |-> Len(quotes.value),
                         requested |-> requested.value]]

\* handleQuotesRequest
handleQuotesRequest(req, config) ==
    LET pairsParam == Lookup(req.query, "pairs")
        parts == split(pairsParam.value, ",")
        pairStrings == [i \in 1..Len(parts) |-> trim(parts[i])]
        validPairs == SelectSeq(pairStrings, PairSchema)
        invalidPairs == SelectSeq(pairStrings, LAMBDA p : ~PairSchema(p))
    IN  IF Falsy(pairsParam)
        THEN quotesResponse(getAllQuotes(serverOptions(config), NoDrift), null)
        ELSE IF Len(invalidPairs) > 0
        THEN [status |-> 400, body |-> [error |-> "Invalid pair format",
                                        invalidPairs |-> invalidPairs]]
        ELSE quotesResponse(getQuotes(serverOptions(config), validPairs, NoDrift),
                            [value |-> Len(validPairs)])

\* The server's fetch handler, as far as the price API goes (the facilitator's own
\* endpoints and /v1/symbols are left out): the response, the handler that made it and
\* the POSTs made to the facilitator.  The CORS headers added to every response are not
\* modelled.
fetch(req, config, facilitator) ==
    LET pathname == req.pathname
        method == req.method
        middleware == x402Middleware(req, pathname, method, facilitator)
        Served(handler, response, calls) ==
            [handler |-> handler, response |-> response, calls |-> calls]
    IN  IF method = "OPTIONS" THEN Served("preflight", [status |-> 204, body |-> null], <<>>)
        ELSE IF pathname = "/v1/health" /\ method = "GET"
        THEN Served("health", [status |-> 200, body |-> [status |-> "ok"]], <<>>)
        ELSE IF middleware.response # null
        THEN Served("x402", middleware.response, middleware.calls)
        ELSE IF pathname = "/v1/price" /\ method = "GET"
        THEN Served("price", Answer(handlePriceRequest(req, config)), middleware.calls)
        ELSE IF pathname = "/v1/quotes" /\ method = "GET"
        THEN Served("quotes", Answer(handleQuotesRequest(req, config)), middleware.calls)
        ELSE Served("none", [status |-> 404, body |-> [error |-> "Not Found"]],
                    middleware.calls)

\* The requests made of the server.  GET: the protected endpoints, a protected path with
\* a trailing slash, and the health check; with and without payment; with and without
\* well-formed parameters.  Other methods: a paid request for a price.
Methods == {"GET", "POST", "OPTIONS"}
Pathnames == {"/v1/price", "/v1/quotes", "/v1/price/", "/v1/health"}
HeaderSets == {<<>>, [h \in {"X-PAYMENT"} |-> UndecodableHeader],
               [h \in {"X-PAYMENT"} |-> PaymentHeader]}
Queries == {<<>>, [pair |-> "BTC-USD"], [pair |-> "bitcoin"],
            [pairs |-> "ETH-USD,BTC-USD"], [pairs |-> "BTC-USD, bitcoin"]}
Requests ==
    [method : {"GET"}, pathname : Pathnames, headers : HeaderSets, query : Queries]
        \cup [method : Methods, pathname : {"/v1/price"},
              headers : {[h \in {"X-PAYMENT"} |-> PaymentHeader]},
              query : {[pair |-> "BTC-USD"]}]

\* the running server's configuration
ServerEnv == [PAIRS |-> "BTC-USD,ETH-USD"]

\* the observation of one pair that the server's only adapter delivers to the cache
ServeTicks == {t \in QuoteTicks : t.venue = "binance" /\ t.pair = "BTC-USD"}
SetServeTick == \E tick \in ServeTicks : set(tick)

\* one request served: the request, the facilitator's part and what fetch made of it go
\* on record in lastCall
Fetch ==
    \E req \in Requests, facilitator \in Facilitators :
        /\ Called("fetch", [method |-> req.method, pathname |-> req.pathname,
                            headers |-> req.headers]
                               @@ fetch(req, loadConfig(ServerEnv), facilitator))
        /\ UNCHANGED <<now, cache, lastSet>>

ServeNext ==
    \/ SetServeTick /\ UNCHANGED lastCall
    \/ Advance /\ UNCHANGED lastCall
    \/ Fetch

\* the cache and the compositor under observations of two quoted pairs
QuoteSpecNext == QuoteNext /\ UNCHANGED <<feedVars, lastCall>>
QuoteSpec == Init /\ [][QuoteSpecNext]_vars

\* the server: requests answered while observations arrive and time passes
ServeSpecNext == ServeNext /\ UNCHANGED feedVars
ServeSpec == Init /\ [][ServeSpecNext]_vars

\* the cache and the compositor over small prices on two venues
BidAskSpecNext == BidAskNext /\ UNCHANGED <<feedVars, lastCall>>
BidAskSpec == Init /\ [][BidAskSpecNext]_vars

\* the venue feed, beside an empty cache
FeedSpecInit == CacheInit /\ FeedInit
FeedSpecNext == FeedNext /\ UNCHANGED <<cacheVars, msgVars, conn>>
FeedSpec == FeedSpecInit /\ [][FeedSpecNext]_vars

\* the venue feed, with timers that fire
FairFeedSpec == FeedSpec /\ WF_vars(ReconnectTimer /\ UNCHANGED <<cacheVars, msgVars, conn>>)

\* the venue feed wired to the cache, with frames arriving
MsgSpec == FeedSpecInit /\ [][MsgNext]_vars

\* the venue feed, with the outcome of every connect() call on record
ConnSpecNext == ConnCalls /\ UNCHANGED <<cacheVars, msgVars>>
ConnSpec == FeedSpecInit /\ [][ConnSpecNext]_vars

(***************************************************************************)
(* Properties of the cache                                                 *)
(***************************************************************************)
\* C1: immediately after set(o), get(o.venue, o.pair) returns o; and whenever more
\* than the staleness threshold (2000 ms) has passed since the latest set for a key,
\* get for that key returns absent (so it keeps returning absent until a further set).
C1_FreshAfterSet ==
    \A tick \in SampleTicks : set(tick) => get(tick.venue, tick.pair)' = tick
C1_AbsentOnceStale ==
    \A t \in SampleTicks :
        LET last == lastSet[createKey(t.venue, t.pair)]
        IN  (last # null /\ now - last.at > STALENESS_THRESHOLD_MS)
                => get(t.venue, t.pair) = null
C1_SetGetStale == [][C1_FreshAfterSet]_vars /\ []C1_AbsentOnceStale

\* C1 witness: an observation was set, more than the threshold has passed, the entry
\* is still stored and get reports it absent
C1_Witness ==
    \E t \in SampleTicks :
        LET key == createKey(t.venue, t.pair)
        IN  /\ lastSet[key] # null
            /\ lastSet[key].tick = t
            /\ now - lastSet[key].at > STALENESS_THRESHOLD_MS
            /\ MapHas(cache, key)
            /\ get(t.venue, t.pair) = null

\* C2: at most one entry per key, and the entry of a key holds exactly the observation
\* of the latest set received for the key, whatever the observations' own timestamps.
C2_LastWriteWins ==
    /\ \A i, j \in 1..Len(cache) : cache[i].key = cache[j].key => i = j
    /\ \A i \in 1..Len(cache) :
          /\ lastSet[cache[i].key] # null
          /\ cache[i].value.tick = lastSet[cache[i].key].tick
          /\ cache[i].value.insertedAt = lastSet[cache[i].key].at

\* C2 witness: two keys are stored, and the entry of one was replaced by an observation
\* with an earlier ts than the one it replaced
C2_Witness ==
    /\ Len(cache) >= 2
    /\ \E i \in 1..Len(cache) :
          /\ lastSet[cache[i].key].outOfOrder
          /\ cache[i].value.tick = lastSet[cache[i].key].tick

(***************************************************************************)
(* Properties of the venue feed                                            *)
(***************************************************************************)
\* C3: once disconnect() has been called no reconnect timer is pending and the
\* reconnect timer never fires again, whatever socket events and connect timeouts
\* arrive afterwards.
C3_DisconnectIsFinal ==
    hist.disconnected => (reconnectTimeout = null /\ ~hist.auto)

\* C3 witness: disconnect() cancelled a pending reconnect, and events of earlier
\* sockets were handled after it
C3_Witness == hist.cancelled /\ hist.lateEvent /\ reconnectTimeout = null

\* a step in which a connection closes or a connect() call fails
LossStep ==
    \/ SockClose
    \/ ConnectTimeout
    \/ ReconnectTimer /\ ConnectThrows(Adapter)
    \/ Connect /\ ConnectThrows(Adapter)

\* the model's caps stop the reconnect timer of an adapter without a valid stream
Capped ==
    /\ Len(streamsOf(pairs)) = 0
    /\ reconnectAttempts = MaxAttempts \/ stats.errors = MaxErrors

\* C4: as long as disconnect() has not been called, after every close and every failed
\* connect() a reconnect timer is pending, and a pending reconnect timer eventually
\* fires (a new connect() call), however many attempts failed before.
C4_LossSchedules ==
    (LossStep /\ ~hist.disconnected) => reconnectTimeout' # null
C4_ReconnectsForever ==
    /\ [][C4_LossSchedules]_vars
    /\ (reconnectTimeout # null) ~> (hist.fired \/ hist.disconnected \/ Capped)

\* C4 witness: five reconnects in a row were scheduled without an open in between,
\* and the next one is pending
C4_Witness == ~hist.disconnected /\ hist.k >= 5 /\ reconnectTimeout # null

\* C5: the k-th reconnect timer set since the last open (or the start) has the delay
\* min(1000 * 2^(k-1), 30000) ms; no delay exceeds 30000 ms; hist.k is 0 after an open,
\* so the first reconnect after an open is delayed by 1000 ms.
C5_DelayOfKth ==
    (hist.k' # hist.k /\ hist.k' # 0)
        => reconnectTimeout' = << Min(1000 * 2 ^ (hist.k' - 1), 30000) >>
C5_Backoff ==
    /\ [][C5_DelayOfKth]_vars
    /\ [](reconnectTimeout # null => reconnectTimeout[1] <= 30000)

\* C5 witness: the sixth reconnect in a row is delayed by the cap, in a run that
\* started again from 1000 ms after an open (the endpoint index 2 at the sixth
\* reconnect shows an earlier run of four or more reconnects)
C5_Witness == hist.k = 6 /\ reconnectTimeout = <<30000>> /\ currentUrlIndex = 2

\* C6: while disconnect() has not been called, the endpoint index advances by one
\* (wrapping) in exactly the steps that handle the 3rd, 6th, 9th, ... consecutive
\* failed connection attempt, and is unchanged in every other step.  (Stated for an
\* adapter whose user called connect() once, as the server does.)
C6_RotationStep ==
    (~hist.disconnected' /\ hist.calls' <= 1) =>
        currentUrlIndex' =
            IF hist.fails' = hist.fails + 1 /\ hist.fails' % 3 = 0
            THEN (currentUrlIndex + 1) % 3
            ELSE currentUrlIndex
C6_RotateEveryThird == [][C6_RotationStep]_vars

(***************************************************************************)
(* Properties of the compositor                                            *)
(*                                                                         *)
(* They are stated for every Compositor configuration of OptionSets, every *)
(* pair and every way the clock may advance inside one getQuote call, and  *)
(* they read the cache's entries directly.                                 *)
(***************************************************************************)
\* the stored entries of `pair` that are fresh now and carry bid and ask, in the
\* order of the cache
Usable(pair) ==
    LET Ok(e) == /\ e.value.tick.pair = pair
                 /\ now - e.value.insertedAt <= STALENESS_THRESHOLD_MS
                 /\ e.value.tick.bid # null
                 /\ e.value.tick.ask # null
    IN  SelectSeq(cache, Ok)

\* the age of the i-th of them when getQuote reads it
AgeRead(pair, drift, i) == now + drift[i] - Usable(pair)[i].value.insertedAt

\* none of them is older than the configured maximum staleness when its age is read
WithinMaxStaleness(options, pair, drift) ==
    \A i \in 1..Len(Usable(pair)) : AgeRead(pair, drift, i) <= options.maxStaleness

\* C7 as stated: getQuote returns absent when fewer than minVenues fresh observations
\* of the pair carry bid and ask, and returns a quote when at least minVenues do.
C7_QuoteIffMinimumMet ==
    \A options \in OptionSets, pair \in Pairs, drift \in DriftSeqs :
        LET q == getQuote(options, pair, drift)
        IN  IF Len(Usable(pair)) < options.minVenues THEN q = null ELSE IsQuote(q)

\* C7 amended: getQuote returns absent when fewer than minVenues fresh observations of
\* the pair carry bid and ask (so also once every entry of the pair is stale); it
\* returns a quote when at least minVenues do and none of them is older than the
\* configured maximum staleness when its age is read.
C7_AbsentBelowMinimum ==
    \A options \in OptionSets, pair \in Pairs, drift \in DriftSeqs :
        LET q == getQuote(options, pair, drift)
        IN  IF Len(Usable(pair)) < options.minVenues THEN q = null
            ELSE WithinMaxStaleness(options, pair, drift) => IsQuote(q)

\* C7 witness: with minVenues = 2, BTC-USD has two fresh observations with bid and ask
\* and gets a quote, while ETH-USD has an entry, all its entries are stale or lack
\* bid/ask, and gets none
C7_Witness ==
    LET options == [minVenues |-> 2, maxStaleness |-> MAX_STALENESS_MS]
    IN  /\ Len(Usable("BTC-USD")) = 2
        /\ IsQuote(getQuote(options, "BTC-USD", NoDrift))
        /\ MapHas(cache, "binance:ETH-USD")
        /\ Len(Usable("ETH-USD")) = 0
        /\ getQuote(DefaultOptions, "ETH-USD", NoDrift) = null

\* the ages of a quote's venues
AgesOf(q) == [i \in 1..Len(q.venues) |-> q.venues[i].age_ms]
IsMaxOf(m, s) == (\E i \in 1..Len(s) : s[i] = m) /\ (\A i \in 1..Len(s) : s[i] <= m)

\* C8 as stated: a quote's staleness_ms is the maximum age_ms of its venues, every
\* venue's age_ms is at most the staleness threshold, staleness_ms is at most the
\* configured maximum staleness, and getQuote returns absent when the maximum age
\* exceeds that bound.
C8_AgesWithinThreshold ==
    \A options \in OptionSets, pair \in Pairs, drift \in DriftSeqs :
        LET q == getQuote(options, pair, drift)
        IN  /\ IsQuote(q) =>
                /\ IsMaxOf(q.staleness_ms, AgesOf(q))
                /\ \A i \in 1..Len(q.venues) : q.venues[i].age_ms <= STALENESS_THRESHOLD_MS
                /\ q.staleness_ms <= options.maxStaleness
            /\ ~WithinMaxStaleness(options, pair, drift) => q = null

\* C8 amended: a quote's staleness_ms is the maximum age_ms of its venues; every venue's
\* age_ms is the age of its entry when getQuote read it, the entry was within the
\* staleness threshold when the cache was filtered, and age_ms is at most the
\* configured maximum staleness (not: at most the threshold); staleness_ms is at most
\* the configured maximum staleness, and getQuote returns absent when the age of a
\* contributing entry exceeds that bound.
C8_StalenessIsMaxAge ==
    \A options \in OptionSets, pair \in Pairs, drift \in DriftSeqs :
        LET q == getQuote(options, pair, drift)
        IN  /\ IsQuote(q) =>
                /\ IsMaxOf(q.staleness_ms, AgesOf(q))
                /\ Len(q.venues) = Len(Usable(pair))
                /\ \A i \in 1..Len(q.venues) :
                      /\ q.venues[i].age_ms = AgeRead(pair, drift, i)
                      /\ q.venues[i].age_ms - drift[i] <= STALENESS_THRESHOLD_MS
                      /\ q.venues[i].age_ms <= options.maxStaleness
                /\ q.staleness_ms <= options.maxStaleness
            /\ ~WithinMaxStaleness(options, pair, drift) => q = null

\* C8 witness: a quote over two venues of different ages, whose staleness_ms is the
\* larger one; and the same pair gets no quote under a stricter maximum staleness
C8_Witness ==
    LET q == getQuote(DefaultOptions, "BTC-USD", NoDrift)
    IN  /\ IsQuote(q)
        /\ Len(q.venues) = 2
        /\ q.venues[1].age_ms # q.venues[2].age_ms
        /\ q.staleness_ms = STALENESS_THRESHOLD_MS
        /\ getQuote([minVenues |-> 1, maxStaleness |-> 1000], "BTC-USD", NoDrift) = null

\* 1/(spread_bps + 1) of a quote's venue
InverseSpread(v) == RatDiv(Int2Rat(1), RatAdd(v.spread_bps, Int2Rat(1)))

\* C9: in every quote each venue's weight is 1/(spread_bps_i + 1) divided by the sum of
\* 1/(spread_bps_j + 1) over the quote's venues, every weight is positive, the weights
\* sum to 1, and the price is the sum of mid_i * weight_i.
C9_SpreadWeights ==
    \A options \in OptionSets, pair \in Pairs, drift \in DriftSeqs :
        LET q == getQuote(options, pair, drift)
            n == Len(q.venues)
        IN  IsQuote(q) =>
              /\ \A i \in 1..n :
                    /\ q.venues[i].spread_bps =
                          calculateSpreadBps(Usable(pair)[i].value.tick.bid,
                                             Usable(pair)[i].value.tick.ask)
                    /\ q.venues[i].w =
                          RatDiv(InverseSpread(q.venues[i]),
                                 RatSum([j \in 1..n |-> InverseSpread(q.venues[j])]))
                    /\ RatGt(q.venues[i].w, Int2Rat(0))
              /\ RatSum([i \in 1..n |-> q.venues[i].w]) = Int2Rat(1)
              /\ q.price = RatSum([i \in 1..n |-> RatMul(q.venues[i].mid, q.venues[i].w)])

\* the venue names of a sequence of venues
NamesOf(venues) == {venues[i].name : i \in 1..Len(venues)}

\* C10 as stated: when N >= minVenues venues hold a fresh observation with bid and ask
\* for the pair, getQuote returns a quote with source_count = N and N venues, one per
\* contributing venue.
C10_CountsFreshVenues ==
    \A options \in OptionSets, pair \in Pairs, drift \in DriftSeqs :
        LET q == getQuote(options, pair, drift)
            u == Usable(pair)
        IN  Len(u) >= options.minVenues =>
              /\ IsQuote(q)
              /\ q.source_count = Len(u)
              /\ Len(q.venues) = Len(u)
              /\ NamesOf(q.venues) = {u[i].value.tick.venue : i \in 1..Len(u)}
              /\ Cardinality(NamesOf(q.venues)) = Len(u)

\* C10 amended: when N >= minVenues venues hold a fresh observation with bid and ask
\* for the pair and none of these is older than the configured maximum staleness when
\* its age is read, getQuote returns a quote with source_count = N and N venues, one
\* per contributing venue and no venue twice.
C10_SourceCount ==
    \A options \in OptionSets, pair \in Pairs, drift \in DriftSeqs :
        LET q == getQuote(options, pair, drift)
            u == Usable(pair)
        IN  (Len(u) >= options.minVenues /\ WithinMaxStaleness(options, pair, drift)) =>
              /\ IsQuote(q)
              /\ q.source_count = Len(u)
              /\ Len(q.venues) = Len(u)
              /\ NamesOf(q.venues) = {u[i].value.tick.venue : i \in 1..Len(u)}
              /\ Cardinality(NamesOf(q.venues)) = Len(u)

\* C10 witness: two venues hold a fresh observation with bid and ask for BTC-USD beside
\* a stored ETH-USD entry, and the quote counts the two
C10_Witness ==
    LET q == getQuote(DefaultOptions, "BTC-USD", NoDrift)
    IN  /\ Len(cache) = 3
        /\ Len(Usable("BTC-USD")) = 2
        /\ IsQuote(q)
        /\ q.source_count = 2
        /\ NamesOf(q.venues) = {"binance", "coinbase"}

\* |a| and the distance of two rationals
RatAbs(a) == <<Abs(a[1]), a[2]>>
RatDist(a, b) == RatAbs(RatSub(a, b))

\* C11: when exactly two fresh observations with bid and ask contribute to a quote and
\* their mids differ, the price is strictly closer to the mid of the one with the
\* strictly smaller spread_bps, and is the midpoint of the two mids when the spreads
\* are equal.
C11_TighterSpreadPulls ==
    \A options \in OptionSets, pair \in Pairs, drift \in DriftSeqs :
        LET q == getQuote(options, pair, drift)
            u == Usable(pair)
            midOf(i) == calculateMid(u[i].value.tick.bid, u[i].value.tick.ask)
            spreadOf(i) == calculateSpreadBps(u[i].value.tick.bid, u[i].value.tick.ask)
        IN  (IsQuote(q) /\ Len(u) = 2 /\ midOf(1) # midOf(2)) =>
              /\ \A a, b \in 1..2 :
                    RatGt(spreadOf(b), spreadOf(a)) =>
                       RatGt(RatDist(q.price, midOf(b)), RatDist(q.price, midOf(a)))
              /\ spreadOf(1) = spreadOf(2) =>
                    q.price = RatDiv(RatAdd(midOf(1), midOf(2)), Int2Rat(2))

\* C12: when exactly one observation contributes to a quote, the price is its mid
\* (bid + ask) / 2 and the venue's weight is 1, whatever its bid and ask.
C12_SingleVenueIsMid ==
    \A options \in OptionSets, pair \in Pairs, drift \in DriftSeqs :
        LET q == getQuote(options, pair, drift)
            u == Usable(pair)
        IN  (IsQuote(q) /\ Len(u) = 1) =>
              /\ Len(q.venues) = 1
              /\ q.venues[1].w = Int2Rat(1)
              /\ q.price = RatDiv(RatAdd(u[1].value.tick.bid, u[1].value.tick.ask), Int2Rat(2))

\* the stored entries of `pair` that are fresh now, and those of them that lack bid or ask
FreshEntries(pair) ==
    LET Ok(e) == /\ e.value.tick.pair = pair
                 /\ now - e.value.insertedAt <= STALENESS_THRESHOLD_MS
    IN  SelectSeq(cache, Ok)
LacksBidAsk(e) == e.value.tick.bid = null \/ e.value.tick.ask = null

\* C13: a fresh observation without bid/ask is not among a quote's venues, is not
\* counted in source_count and does not count toward minVenues; when every fresh
\* observation of the pair lacks bid/ask getQuote returns absent.
C13_NoBidAskNoPart ==
    \A options \in OptionSets, pair \in Pairs, drift \in DriftSeqs :
        LET q == getQuote(options, pair, drift)
            fresh == FreshEntries(pair)
            lacking == SelectSeq(fresh, LacksBidAsk)
        IN  /\ IsQuote(q) =>
                /\ \A i \in 1..Len(lacking) :
                      lacking[i].value.tick.venue \notin NamesOf(q.venues)
                /\ q.source_count = Len(fresh) - Len(lacking)
                /\ Len(q.venues) = Len(fresh) - Len(lacking)
                /\ Len(fresh) - Len(lacking) >= options.minVenues
            /\ (Len(fresh) >= 1 /\ Len(lacking) = Len(fresh)) => q = null

\* C13 witness: BTC-USD has a fresh trade observation of binance and a fresh book
\* observation of coinbase: the quote for minVenues = 1 has coinbase alone, there is
\* no quote for minVenues = 2; the only fresh ETH-USD observation has no ask and
\* ETH-USD has no quote
C13_Witness ==
    LET q == getQuote(DefaultOptions, "BTC-USD", NoDrift)
    IN  /\ Len(FreshEntries("BTC-USD")) = 2
        /\ Len(SelectSeq(FreshEntries("BTC-USD"), LacksBidAsk)) = 1
        /\ IsQuote(q)
        /\ NamesOf(q.venues) = {"coinbase"}
        /\ getQuote([minVenues |-> 2, maxStaleness |-> MAX_STALENESS_MS], "BTC-USD", NoDrift) = null
        /\ Len(FreshEntries("ETH-USD")) = 1
        /\ getQuote(DefaultOptions, "ETH-USD", NoDrift) = null

\* the entries of the cache that are not older than the staleness threshold now
NotStale(e) == now - e.value.insertedAt <= STALENESS_THRESHOLD_MS

\* C14: a cleanup() call leaves exactly the entries that are not older than the
\* staleness threshold, in their order, and returns the number of entries it removed;
\* a cleanup() called right after a cleanup() removes nothing and returns 0.
C14_CleanupStep ==
    lastCall'.op = "cleanup" =>
        /\ cache' = SelectSeq(cache, NotStale)
        /\ lastCall'.result = Len(cache) - Len(SelectSeq(cache, NotStale))
        /\ lastCall'.result = Len(cache) - Len(cache')
        /\ lastCall.op = "cleanup" => (lastCall'.result = 0 /\ cache' = cache)
C14_CleanupRemovesStale == [][C14_CleanupStep]_vars

\* C14 witness: cleanup() has just removed one stale entry and kept two that are not
\* stale, one of them exactly 2000 ms old
C14_Witness ==
    /\ lastCall = [op |-> "cleanup", result |-> 1]
    /\ Len(cache) = 2
    /\ \E i \in 1..Len(cache) : now - cache[i].value.insertedAt = STALENESS_THRESHOLD_MS

\* the pairs and venues the cache is asked for: the stored ones, and names that are
\* not stored but share a prefix or a suffix with a stored one
QueryPairs == Pairs \cup {"BTC-USDT", "USD", "SOL-USD"}
QueryVenues == Venues \cup {"kraken"}

\* the elements of a sequence
Elems(seq) == {seq[i] : i \in 1..Len(seq)}

\* C15: getByPair(p) returns exactly the observations of the entries that are not stale
\* and whose observation's pair is p, one per venue; getByVenue(v) returns exactly the
\* observations of the entries that are not stale and whose observation's venue is v,
\* one per pair.  (The pairs are canonical names of the symbol map: no ":" in a name.)
C15_ByPairByVenue ==
    /\ \A p \in QueryPairs :
          LET r == getByPair(p, now)
          IN  /\ Elems(r) = {cache[j].value.tick : j \in
                               {k \in 1..Len(cache) : /\ cache[k].value.tick.pair = p
                                                      /\ NotStale(cache[k])}}
              /\ \A i, j \in 1..Len(r) : r[i].venue = r[j].venue => i = j
    /\ \A v \in QueryVenues :
          LET r == getByVenue(v, now)
          IN  /\ Elems(r) = {cache[j].value.tick : j \in
                               {k \in 1..Len(cache) : /\ cache[k].value.tick.venue = v
                                                      /\ NotStale(cache[k])}}
              /\ \A i, j \in 1..Len(r) : r[i].pair = r[j].pair => i = j

\* C15 witness: three entries are stored and the binance entry of BTC-USD is stale:
\* getByPair("BTC-USD") is the coinbase observation alone, getByVenue("binance") is
\* the ETH-USD observation alone
C15_Witness ==
    /\ Len(cache) = 3
    /\ Len(getByPair("BTC-USD", now)) = 1
    /\ getByPair("BTC-USD", now)[1].venue = "coinbase"
    /\ Len(getByVenue("binance", now)) = 1
    /\ getByVenue("binance", now)[1].pair = "ETH-USD"

\* C16: at any instant every operation of the cache applies the same rule (an entry no
\* older than 2000 ms is fresh).  For every venue and pair: has is true iff get is not
\* absent iff an entry is stored for the key and is not older than 2000 ms; for a stored
\* entry this holds iff its observation is in getByPair(pair), iff it is in
\* getByVenue(venue), iff cleanup() would keep it; getStats().freshEntries is the number
\* of such entries and staleEntries the number of the others.
C16_OneFreshnessRule ==
    /\ \A v \in QueryVenues, p \in QueryPairs :
          LET stored == {k \in 1..Len(cache) :
                            cache[k].value.tick.venue = v /\ cache[k].value.tick.pair = p}
              fresh == \E k \in stored : now - cache[k].value.insertedAt <= 2000
          IN  /\ has(v, p) <=> fresh
              /\ (get(v, p) # null) <=> fresh
              /\ (\E i \in 1..Len(getByPair(p, now)) : getByPair(p, now)[i].venue = v) <=> fresh
              /\ (\E i \in 1..Len(getByVenue(v, now)) : getByVenue(v, now)[i].pair = p) <=> fresh
              /\ \A k \in stored :
                    /\ cleanupKeeps(cache[k]) <=> fresh
                    /\ fresh => /\ get(v, p) = cache[k].value.tick
                                /\ cache[k].value.tick \in Elems(getByPair(p, now))
                                /\ cache[k].value.tick \in Elems(getByVenue(v, now))
    /\ getStats.totalEntries = Len(cache)
    /\ getStats.freshEntries =
          Cardinality({k \in 1..Len(cache) : now - cache[k].value.insertedAt <= 2000})
    /\ getStats.staleEntries = Len(cache) - getStats.freshEntries
    /\ cleanupRemoved = getStats.staleEntries

\* C16 witness: of three stored entries one is exactly 2000 ms old and fresh for every
\* operation, one is 2001 ms old and stale for every operation
C16_Witness ==
    /\ Len(cache) = 3
    /\ \E i, j \in 1..Len(cache) :
          /\ now - cache[i].value.insertedAt = 2000
          /\ has(cache[i].value.tick.venue, cache[i].value.tick.pair)
          /\ now - cache[j].value.insertedAt = 2001
          /\ ~has(cache[j].value.tick.venue, cache[j].value.tick.pair)
    /\ getStats.freshEntries = 2
    /\ getStats.staleEntries = 1

(***************************************************************************)
(* Properties of the adapter's message handling                            *)
(***************************************************************************)
\* this step handled a frame of the set F
Handled(F) ==
    /\ Len(received') = Len(received) + 1
    /\ received'[Len(received')] \in F

\* this step passed no observation on: the callback was not called, the cache and the
\* message counters are as before
NothingDelivered ==
    /\ delivered' = delivered
    /\ cache' = cache
    /\ stats'.messagesReceived = stats.messagesReceived
    /\ stats'.lastMessageTime = stats.lastMessageTime

\* this step left the connection as it was: every socket in its state, this.ws the
\* same socket, no reconnect scheduled or cancelled
ConnectionKept ==
    /\ socks' = socks
    /\ reconnectTimeout' = reconnectTimeout
    /\ reconnectAttempts' = reconnectAttempts
    /\ shouldReconnect' = shouldReconnect
    /\ currentUrlIndex' = currentUrlIndex
    /\ stats'.connected = stats.connected
    /\ \E i \in 1..Len(socks') : socks'[i].state = "OPEN"

UnparsableFrames == {FrameGarbage}
IncompleteFrames == {FrameNull, FrameNoData, FrameNoSymbol}
UnmappedFrames == {FrameUnknown}
BookTopFrames == {FrameBtc, FrameEth}

\* C17: a frame that cannot be parsed raises the error counter by exactly 1; no
\* observation reaches the callback, messagesReceived is unchanged, and the connection
\* stays as it was, its socket open for the frames that follow.
C17_UnparsableCounted ==
    [][Handled(UnparsableFrames) =>
          /\ stats'.errors = stats.errors + 1
          /\ NothingDelivered
          /\ ConnectionKept]_vars

\* an unparsable frame was counted, and a frame that came after it was delivered
C17_Witness ==
    /\ Len(received) >= 2
    /\ received[1] \in UnparsableFrames
    /\ received[Len(received)] \in BookTopFrames
    /\ stats.errors = 1
    /\ Len(delivered) = 1

\* C18 as stated: a frame that parses but has no data object or no symbol raises the
\* error counter; no observation is delivered and the connection stays open.
C18_IncompleteCounted ==
    [][Handled(IncompleteFrames) =>
          /\ stats'.errors > stats.errors
          /\ NothingDelivered
          /\ ConnectionKept]_vars

\* C19: a frame whose symbol maps to no pair is dropped silently: no observation is
\* delivered, the error counter and messagesReceived are unchanged, and the connection
\* stays open.
C19_UnmappedDropped ==
    [][Handled(UnmappedFrames) =>
          /\ stats'.errors = stats.errors
          /\ NothingDelivered
          /\ ConnectionKept]_vars

\* a frame with an unmapped symbol was handled and left no trace
C19_Witness ==
    /\ Len(received) >= 1
    /\ received[Len(received)] \in UnmappedFrames
    /\ stats.errors = 0
    /\ stats.messagesReceived = 0
    /\ delivered = <<>>
    /\ cache = <<>>

\* the observation a book-top frame stands for, read off the frame's text
BookTopOf(data) ==
    IF data = FrameBtc
    THEN [pair |-> "BTC-USD", bid |-> Int2Rat(50000), ask |-> Int2Rat(50001)]
    ELSE [pair |-> "ETH-USD", bid |-> Int2Rat(3000), ask |-> Int2Rat(3001)]

\* the book-top frames received so far, in receipt order
BookTops == SelectSeq(received, LAMBDA d : d \in BookTopFrames)

\* the delivered observations are those of the book-top frames, one each, in order
DeliveredInOrder ==
    /\ Len(delivered) = Len(BookTops)
    /\ \A i \in 1..Len(delivered) :
          /\ delivered[i].venue = "binance"
          /\ delivered[i].type = "book"
          /\ delivered[i].pair = BookTopOf(BookTops[i]).pair
          /\ delivered[i].bid = BookTopOf(BookTops[i]).bid
          /\ delivered[i].ask = BookTopOf(BookTops[i]).ask
          /\ i > 1 => delivered[i].ts >= delivered[i - 1].ts

\* this step wrote the observation tick to the cache by one set() at the time of receipt
WrittenBySet(tick) ==
    LET key == createKey(tick.venue, tick.pair)
    IN  /\ tick.ts = now
        /\ MapHas(cache', key)
        /\ MapGet(cache', key) = [tick |-> tick, insertedAt |-> now]
        /\ \A k \in AllKeys \ {key} :
              /\ MapHas(cache', k) = MapHas(cache, k)
              /\ MapHas(cache, k) => MapGet(cache', k) = MapGet(cache, k)
        /\ Len(cache') = Len(cache) + (IF MapHas(cache, key) THEN 0 ELSE 1)

\* C20: every frame that parses to a book-top update for a mapped symbol is delivered to
\* the tick callback exactly once, in receipt order; messagesReceived equals the number
\* of observations delivered so far; with the server's callback each delivery is one
\* set() on the cache, and the cache changes in no other step.
C20_DeliveredOnceInOrder ==
    /\ [](DeliveredInOrder /\ stats.messagesReceived = Len(delivered))
    /\ [][/\ Handled(BookTopFrames) =>
               /\ delivered' = Append(delivered, delivered'[Len(delivered')])
               /\ WrittenBySet(delivered'[Len(delivered')])
               /\ stats'.lastMessageTime = now
               /\ stats'.errors = stats.errors
               /\ ConnectionKept
          /\ ~Handled(BookTopFrames) => delivered' = delivered /\ cache' = cache]_vars

\* two book-top frames were delivered around a frame that was not, and both are cached
C20_Witness ==
    /\ Len(delivered) = 2
    /\ Len(received) > 2
    /\ delivered[1].pair # delivered[2].pair
    /\ delivered[1].ts < delivered[2].ts
    /\ received[1] \in BookTopFrames
    /\ received[2] \notin BookTopFrames
    /\ Len(cache) = 2

C23_NeverThrows ==
    \A options \in AnyOptionSets, drift \in DriftSeqs :
        /\ \A pair \in QuotedPairs : ~IsThrow(getQuote(options, pair, drift))
        /\ \A ps \in PairLists : ~IsThrow(getQuotes(options, ps, drift))
        /\ ~IsThrow(getAllQuotes(options, drift))

\* C24: getQuotes(pairs) returns exactly the quotes of the input pairs that have one, in
\* the order of the input; a pair without a quote is left out without an error, so the
\* result is never longer than the input.
C24_QuotesInInputOrder ==
    \A options \in OptionSets, ps \in PairLists :
        LET r == getQuotes(options, ps, NoDrift)
            at == SelectSeq([i \in 1..Len(ps) |-> i],
                            LAMBDA i : IsQuote(getQuote(options, ps[i], NoDrift)))
        IN  /\ ~IsThrow(r)
            /\ Len(r.value) = Len(at)
            /\ Len(r.value) <= Len(ps)
            /\ \A k \in 1..Len(at) :
                  /\ r.value[k] = getQuote(options, ps[at[k]], NoDrift)
                  /\ r.value[k].pair = ps[at[k]]

\* both pairs have a quote, a third has none: getQuotes returns the two in input order
C24_Witness ==
    LET ps == <<"ETH-USD", "BTC-USD">>
        r == getQuotes(DefaultOptions, ps, NoDrift)
    IN  /\ Len(r.value) = 2
        /\ r.value[1].pair = "ETH-USD"
        /\ r.value[2].pair = "BTC-USD"
        /\ getQuotes(DefaultOptions, <<"SOL-USD", "BTC-USD">>, NoDrift).value
              = <<r.value[2]>>

\* the pairs that have an entry in the cache, from whichever venue, in cache order
RECURSIVE CachedPairs(_)
CachedPairs(n) ==
    IF n = 0 THEN <<>>
    ELSE LET before == CachedPairs(n - 1)
             pair == cache[n].value.tick.pair
         IN  IF \E i \in 1..Len(before) : before[i] = pair THEN before
             ELSE Append(before, pair)

\* C25 as stated: getAllQuotes returns what getQuotes returns for the pairs that have an
\* entry in the cache, from whichever venue.
C25_AllCachedPairs ==
    \A options \in OptionSets, drift \in DriftSeqs :
        getAllQuotes(options, drift) = getQuotes(options, CachedPairs(Len(cache)), drift)

(***************************************************************************)
(* Properties of the server's configuration                                *)
(***************************************************************************)
\* the entries of the pair that carry bid and ask
Priced(pair) ==
    SelectSeq(cache, LAMBDA e : e.value.tick.pair = pair /\ hasBidAsk(e.value.tick))

\* C26 as stated: the staleness bound of the running server is the configured STALE_MS:
\* no observation older than STALE_MS contributes to a served quote, and an observation
\* not older than STALE_MS is not rejected for staleness.
C26_ConfiguredStaleness ==
    \A env \in Envs, pair \in QuotedPairs :
        LET S == loadConfig(env).staleMs
            q == servedQuote(loadConfig(env), pair, NoDrift)
        IN  /\ IsQuote(q) => \A i \in 1..Len(q.venues) : q.venues[i].age_ms <= S
            /\ \A j \in 1..Len(Priced(pair)) :
                  now - Priced(pair)[j].value.insertedAt <= S =>
                      /\ IsQuote(q)
                      /\ \E i \in 1..Len(q.venues) :
                            q.venues[i].name = Priced(pair)[j].value.tick.venue

\* C27 as stated: no served quote includes a venue whose spread in basis points exceeds
\* the configured SPREAD_BPS_MAX.
C27_ConfiguredSpread ==
    \A env \in Envs, pair \in QuotedPairs :
        LET q == servedQuote(loadConfig(env), pair, NoDrift)
        IN  IsQuote(q) =>
                \A i \in 1..Len(q.venues) :
                    ~RatGt(q.venues[i].spread_bps, Int2Rat(loadConfig(env).spreadBpsMax))

(***************************************************************************)
(* The protected endpoints                                                 *)
(***************************************************************************)
\* the request just served, if one was
Fetched == lastCall.op = "fetch"
\* the facilitator reported the payment valid, and then its settlement a success
Verified(served) == \E i \in 1..Len(served.calls) : served.calls[i] = Post("verify", "valid")
Settled(served) == \E i \in 1..Len(served.calls) : served.calls[i] = Post("settle", "success")
\* the response carries price data: one quote, or a list of quotes
IsPriceData(served) ==
    /\ served.handler \in {"price", "quotes"}
    /\ served.response.status = 200
    /\ served.response.body # null
    /\ \/ IsQuote(served.response.body) /\ "price" \in DOMAIN served.response.body
       \/ "quotes" \in DOMAIN served.response.body

\* C28: a request to a protected endpoint whose payment the server has verified and
\* settled is answered with the price data it asked for, never with an error response
\* (400, 404 or 503).
C28_SettledIsAnswered ==
    (Fetched /\ Verified(lastCall.result) /\ Settled(lastCall.result))
        => /\ IsPriceData(lastCall.result)
           /\ lastCall.result.response.status \notin {400, 404, 503}

\* a request to one of the two protected endpoints
ToProtected(served) ==
    served.method = "GET" /\ served.pathname \in {"/v1/price", "/v1/quotes"}
\* the request carried an X-PAYMENT header, the facilitator reported it valid and then
\* reported the settlement a success
Paid(served) ==
    /\ "X-PAYMENT" \in DOMAIN served.headers
    /\ served.calls = <<Post("verify", "valid"), Post("settle", "success")>>
\* every POST to /settle comes right after a POST to /verify that reported valid
SettleAfterVerify(served) ==
    \A i \in 1..Len(served.calls) :
        served.calls[i].post = "settle"
            => i > 1 /\ served.calls[i - 1] = Post("verify", "valid")

\* C29: a request to a protected endpoint (GET /v1/price, GET /v1/quotes) reaches the
\* price handler only if it carried an X-PAYMENT header that the facilitator verified as
\* valid and then settled with success; settlement is requested only after a successful
\* verification; in every other case the response is 402 and carries no price data.
C29_PaidOrRefused ==
    (Fetched /\ ToProtected(lastCall.result))
        => LET served == lastCall.result
           IN  /\ served.handler \in {"price", "quotes"} => Paid(served)
               /\ SettleAfterVerify(served)
               /\ ~Paid(served) => /\ served.handler = "x402"
                                   /\ served.response.status = 402
                                   /\ ~IsPriceData(served)
                                   /\ "error" \in DOMAIN served.response.body

\* a paid request to GET /v1/price has reached the price handler and was answered with
\* a quote
C29_Witness ==
    /\ Fetched /\ ToProtected(lastCall.result)
    /\ Paid(lastCall.result)
    /\ lastCall.result.handler = "price"
    /\ IsPriceData(lastCall.result)

(***************************************************************************)
(* Symbol translation                                                      *)
(***************************************************************************)
\* the Binance symbol a book-top frame carries
SymbolOf(data) == JSONparse(data).value.data.s

\* C30: for every supported canonical pair p, binanceToSymbol(symbolToBinance(p)) = p, so
\* an observation received for the Binance symbol subscribed on behalf of p is passed on
\* to the cache under pair p.
C30_SymbolRoundTrip ==
    \A p \in DOMAIN SYMBOL_MAP :
        /\ binanceToSymbol(symbolToBinance(p)) = [value |-> p]
        /\ \A data \in BookTopFrames :
               SymbolOf(data) = symbolToBinance(p)
                   => handleMessage(Adapter, data, now).tick.pair = p

(***************************************************************************)
(* The composite bid and ask                                               *)
(***************************************************************************)
\* the quotes the claims on bid and ask speak of: finite price, finite spreads
FiniteQuote(q) ==
    /\ IsQuote(q)
    /\ IsFinite(q.price)
    /\ \A i \in 1..Len(q.venues) : IsFinite(q.venues[i].spread_bps)
MinSpreadBps(q) == MinOfNumbers([i \in 1..Len(q.venues) |-> q.venues[i].spread_bps])
\* price * minSpreadBps / 20000
HalfSpread(q) == RatDiv(RatMul(q.price, MinSpreadBps(q)), Int2Rat(20000))

\* a decimal with eight places, zero without a sign
Canon(dec) == IF dec.whole = 0 /\ dec.frac = 0 THEN [dec EXCEPT !.neg = FALSE] ELSE dec
\* the multiples of 10^-8 next to x in magnitude: below or at it, and at or above it
Below8(x) ==
    Canon([neg |-> x[1] < 0, whole |-> Abs(x[1]) \div x[2],
           frac |-> DecimalsOf(Abs(x[1]) % x[2], x[2], FIXED_PLACES).digits])
IsExact8(x) == DecimalsOf(Abs(x[1]) % x[2], x[2], FIXED_PLACES).rest = 0
Above8(x) ==
    LET b == Below8(x)
    IN  IF IsExact8(x) THEN b
        ELSE IF b.frac = FIXED_UNIT - 1
        THEN [neg |-> x[1] < 0, whole |-> b.whole + 1, frac |-> 0]
        ELSE [neg |-> x[1] < 0, whole |-> b.whole, frac |-> b.frac + 1]
\* the largest multiple of 10^-8 that is at most x, and the smallest that is at least x
Floor8(x) == IF x[1] < 0 THEN Above8(x) ELSE Below8(x)
Ceil8(x) == IF x[1] < 0 THEN Below8(x) ELSE Above8(x)
\* a <= b for decimals with eight places
Magnitude(dec) == <<dec.whole, dec.frac>>
MagLeq(a, b) == a[1] < b[1] \/ (a[1] = b[1] /\ a[2] <= b[2])
DecLeq(a, b) ==
    LET ca == Canon(a)
        cb == Canon(b)
    IN  IF ca.neg /\ ~cb.neg THEN TRUE
        ELSE IF ~ca.neg /\ cb.neg THEN FALSE
        ELSE IF ca.neg THEN MagLeq(Magnitude(cb), Magnitude(ca))
        ELSE MagLeq(Magnitude(ca), Magnitude(cb))
\* the decimal dec is the number x
DecIs(dec, x) == IsExact8(x) /\ Canon(dec) = Below8(x)

Writers == {"set", "cleanup", "clear"}
Stored(entries, key) == MapHas(entries, key)
StaleAt(entry, t) == t - entry.insertedAt > STALENESS_THRESHOLD_MS

\* a step that is not a Set, a Cleanup or a Clear leaves every entry as it is
ReadsKeepEntries == lastCall'.op \notin Writers => cache' = cache
\* a Set leaves the entries of the other keys as they are
SetKeepsOtherKeys ==
    lastCall'.op = "set" =>
        \A key \in AllKeys :
            key # createKey(lastCall'.args[1], lastCall'.args[2])
                => MapGet(cache', key) = MapGet(cache, key)
\* a key that holds an entry holds one until a Cleanup or a Clear, stale or not, and the
\* entry is counted in totalEntries
StoredUntilRemoved ==
    lastCall'.op \notin {"cleanup", "clear"} =>
        /\ \A i \in 1..Len(cache) : Stored(cache', cache[i].key)
        /\ getStats'.totalEntries >= getStats.totalEntries
        /\ getStats'.totalEntries = Len(cache')

\* C32: only Set, Cleanup and Clear change the stored entries; the reads leave every
\* entry unchanged, a Set leaves the entries of all other keys unchanged, and a stale
\* entry stays stored and counted in totalEntries until a Cleanup or a Clear.
C32_OnlyWritersChangeEntries ==
    [][ReadsKeepEntries /\ SetKeepsOtherKeys /\ StoredUntilRemoved]_vars

\* after a Set for another key, a stale entry is still stored and counted, and get does
\* not return it
C32_Witness ==
    /\ lastCall.op = "set"
    /\ lastCall.args = <<"coinbase", "BTC-USD">>
    /\ Stored(cache, "binance:BTC-USD")
    /\ StaleAt(MapGet(cache, "binance:BTC-USD"), now)
    /\ get("binance", "BTC-USD") = null
    /\ getStats = [totalEntries |-> 2, freshEntries |-> 1, staleEntries |-> 1]

\* the entry a Set step stores is stamped with the time of the call, which is not before
\* the stamp of the entry it replaces nor before the last Set of the key
SetStampsNow ==
    lastCall'.op = "set" =>
        LET key == createKey(lastCall'.args[1], lastCall'.args[2])
        IN  /\ Stored(cache', key)
            /\ MapGet(cache', key).insertedAt = now'
            /\ Stored(cache, key) => MapGet(cache', key).insertedAt >= MapGet(cache, key).insertedAt
            /\ lastSet[key] # null => MapGet(cache', key).insertedAt >= lastSet[key].at
\* no step lowers the stamp of a key that stays stored
StampsNeverDecrease ==
    \A key \in AllKeys :
        (Stored(cache, key) /\ Stored(cache', key))
            => MapGet(cache', key).insertedAt >= MapGet(cache, key).insertedAt

\* C33: for every key, the insertedAt of the stored entry never decreases over any
\* sequence of Set operations on that key; each Set stamps the entry with the current
\* time, which is at least the insertedAt of the entry it replaces.
C33_InsertedAtMonotone == [][SetStampsNow /\ StampsNeverDecrease]_vars

\* a Set has replaced the entry of the key stored first, which now carries a later stamp
\* than the entry of the key stored after it
C33_Witness ==
    /\ lastCall.op = "set"
    /\ Len(cache) = 2
    /\ cache[1].key = createKey(lastCall.args[1], lastCall.args[2])
    /\ cache[1].value.insertedAt > cache[2].value.insertedAt

\* the observation of the latest Set of a key
LatestSet(venue, pair) == lastSet[createKey(venue, pair)]
IsLatestSet(tick) ==
    /\ LatestSet(tick.venue, tick.pair) # null
    /\ LatestSet(tick.venue, tick.pair).tick = tick

\* one entry per key, each filed under the venue:pair of its observation
OneEntryPerKey ==
    /\ \A i, j \in 1..Len(cache) : cache[i].key = cache[j].key => i = j
    /\ \A i \in 1..Len(cache) :
          cache[i].key = createKey(cache[i].value.tick.venue, cache[i].value.tick.pair)

\* what the read that has just returned gave back is the latest Set of its key
ReadsSeeLatestSet ==
    /\ lastCall.op = "get" =>
          \/ lastCall.result = null
          \/ /\ IsLatestSet(lastCall.result)
             /\ <<lastCall.result.venue, lastCall.result.pair>> = lastCall.args
    /\ lastCall.op \in {"getByPair", "getByVenue"} =>
          \A i \in 1..Len(lastCall.result) : IsLatestSet(lastCall.result[i])
    /\ (lastCall.op = "getQuote" /\ IsQuote(lastCall.result)) =>
          \A i \in 1..Len(lastCall.result.venues) :
              LET venue == lastCall.result.venues[i]
                  latest == LatestSet(venue.name, lastCall.args[1])
              IN  /\ latest # null
                  /\ hasBidAsk(latest.tick)
                  /\ venue.mid = calculateMid(latest.tick.bid, latest.tick.ask)

\* a Cleanup step keeps every entry that is fresh when it runs
CleanupKeepsFresh ==
    lastCall'.op = "cleanup" =>
        \A i \in 1..Len(cache) :
            now - cache[i].value.insertedAt <= STALENESS_THRESHOLD_MS
                => \E j \in 1..Len(cache') : cache'[j] = cache[i]

\* C34: under any interleaving of Set calls from the feed with Get, GetByPair, Cleanup
\* and GetQuote calls from request handlers, the store never holds two entries for one
\* key nor an entry filed under another key than its observation's venue:pair, a read
\* never returns an observation that was not the latest Set for its key at the time of
\* the read, and Cleanup never removes an entry that is fresh at the time it runs.
C34_CallsAreAtomic ==
    /\ [](OneEntryPerKey /\ ReadsSeeLatestSet)
    /\ [][CleanupKeepsFresh]_vars

\* a getQuote has returned a quote of two venues, the entry of the first of them
\* replaced by a Set that came after the Set of the second
C34_Witness ==
    /\ lastCall.op = "getQuote"
    /\ IsQuote(lastCall.result)
    /\ lastCall.result.source_count = 2
    /\ cache[1].value.insertedAt > cache[2].value.insertedAt

(***************************************************************************)
(* The sockets of the feed                                                 *)
(***************************************************************************)
\* the sockets that are connecting or open
LiveSockets == {i \in 1..Len(socks) : socks[i].state \in {"CONNECTING", "OPEN"}}

\* C35: at any time a feed has at most one live (connecting or open) transport
\* connection, also after a connect() attempt ended by timeout or when connect() is
\* called again while an attempt is still in progress.
C35_OneLiveSocket == Cardinality(LiveSockets) <= 1

\* C36: in every reachable state getStats().connected equals isConnected(): the flag is
\* true exactly when the feed's current socket is open, whatever order the open, error,
\* close and timeout events of current and earlier sockets arrive in, and both are false
\* after disconnect().
C36_ConnectedFlagIsSocketOpen ==
    /\ stats.connected = isConnected
    /\ (hist.disconnected /\ ~HasWs(Adapter)) => (~stats.connected /\ ~isConnected)

\* a step that finds a reconnect timer pending and does not fire it: a socket event or
\* a connect timeout that leaves a timer pending
FindsTimerPending == reconnectTimeout # null /\ reconnectTimeout' # null /\ ~hist'.fired

\* such a step schedules nothing, counts no attempt and does not rotate the endpoint
PendingTimerStays ==
    FindsTimerPending =>
        /\ reconnectTimeout' = reconnectTimeout
        /\ reconnectAttempts' = reconnectAttempts \/ reconnectAttempts' = 0
        /\ stats'.reconnectAttempts = reconnectAttempts'
        /\ currentUrlIndex' = currentUrlIndex
        /\ hist'.k = hist.k \/ hist'.k = 0

\* no step counts more than one attempt: the connect failure and the close event of one
\* failed connection are one attempt
OneAttemptPerFailure ==
    /\ reconnectAttempts' <= reconnectAttempts + 1
    /\ hist'.k <= hist.k + 1

\* C37: at most one reconnect timer is pending at any time: a close or failure event
\* that arrives while a reconnect is already scheduled schedules nothing, does not
\* increase the reconnect attempt counter and does not rotate the endpoint, so one
\* failed connection (a connect failure and a close event) counts as one attempt.
C37_OneReconnectPending == [][PendingTimerStays /\ OneAttemptPerFailure]_vars

\* the first connection failed with an error event and a close event: two errors on the
\* counter, one attempt, one timer
C37_Witness ==
    /\ hist.fails = 1
    /\ stats.errors = 2
    /\ reconnectAttempts = 1
    /\ hist.k = 1
    /\ reconnectTimeout = <<INITIAL_RECONNECT_DELAY>>
    /\ Len(socks) = 1
    /\ socks[1].state = "CLOSED"

(***************************************************************************)
(* The venues a quote counts                                               *)
(***************************************************************************)
\* C38: once a fresh book-top observation with bid and ask for (venue, pair) is cached,
\* getQuote(pair) keeps counting that venue until the entry becomes stale or is removed
\* by Cleanup/Clear, whatever other observations are Set meanwhile, including a trade
\* observation without bid/ask for the same venue and pair.
C38_BookTopKeepsCounting ==
    lastCall.op \in {"set", "advance"} =>
        \A c \in lastCall.counted :
            now - c.insertedAt <= STALENESS_THRESHOLD_MS => Counts(c.venue, c.pair)
(***************************************************************************)
(* The composite price and the mids of the venues                          *)
(***************************************************************************)
RatLeq(a, b) == a = b \/ RatGt(b, a)

\* C39: the composite price of every returned quote lies between the smallest and the
\* largest mid of its contributing venues (inclusive), for every combination of cached
\* bid/ask values, including observations whose bid exceeds their ask.
C39_PriceWithinMids ==
    \A options \in OptionSets, pair \in Pairs, drift \in DriftSeqs :
        LET q == getQuote(options, pair, drift)
        IN  IsQuote(q) =>
              /\ \E i \in 1..Len(q.venues) : RatLeq(q.venues[i].mid, q.price)
              /\ \E j \in 1..Len(q.venues) : RatLeq(q.price, q.venues[j].mid)

(***************************************************************************)
(* The arithmetic of the monetary values                                   *)
(***************************************************************************)
MonetaryValues == {"mid", "price", "bid", "ask"}

\* C40: every monetary value of a quote (venue mid, composite price, composite bid and
\* composite ask) is computed and carried with exact decimal arithmetic and never passes
\* through binary floating point: each is carried as a Decimal (or, at the least, the
\* number it passes through is the decimal value itself).
C40_MoneyIsDecimal ==
    \A options \in OptionSets, drift \in DriftSeqs :
        LET q == getQuote(options, "BTC-USD", drift)
        IN  FiniteQuote(q) =>
              \A value \in MonetaryValues :
                  \/ carriedAs[value] = "Decimal"
                  \/ parseFloatIsExact(q.price)
====
